---------------------------- MODULE Spec2Model ----------------------------
(***************************************************************************)
(* Model of the conduit homeserver core:                                   *)
(*   - the outbound sending handler (src/service/sending/mod.rs),          *)
(*   - validate_pdu    (src/service/rooms/event_handler/pipeline/          *)
(*                      validation.rs),                                    *)
(*   - resolve_state   (.../pipeline/stateres.rs),                         *)
(*   - fetch_dependencies and authorize_pdu (.../pipeline/fetcher.rs,      *)
(*     .../pipeline/auth.rs),                                              *)
(*   - the per-room state mutex of the admin service                       *)
(*     (src/service/admin/mod.rs) and the mutex around state_res::resolve, *)
(*   - find_ldap_user  (src/service/ldap.rs).                              *)
(* Time is counted in seconds; the clock advances in steps of 30 s, the    *)
(* base of the backoff.                                                    *)
(***************************************************************************)
EXTENDS Bags, FiniteSets, Integers, Naturals, Sequences, TLC

(***************************************************************************)
(* Bounds of the model.                                                    *)
(***************************************************************************)
MaxItems == 3
MaxTime == 30
MaxInFlight == 2
MaxChannel == 1
MaxConcurrentRequests == 1

(***************************************************************************)
(* Program constants.                                                      *)
(***************************************************************************)
BackoffBase == 30
BackoffCap == 86400
TickInterval == 60
BatchLimit == 30

(***************************************************************************)
(* Destinations: one per OutgoingKind variant.                             *)
(***************************************************************************)
OutgoingKind == {"Normal", "Push", "Appservice"}

Items == 1 .. MaxItems

Callers == {"resolve_state"}

VARIABLES
    now,            \* Instant::now(), seconds
    nextTick,       \* deadline of the next interval.tick()
    hpc,            \* position of handler(): "start" before the recovery loop, "loop" in select!
    dbQueued,       \* servernameevent_data: destination -> keys queued
    dbActive,       \* servercurrentevent_data: destination -> keys marked active
    channel,        \* the unbounded mpsc channel sender/receiver
    status,         \* current_transaction_status
    futures,        \* the FuturesUnordered of handle_events futures (a bag)
    permits,        \* available permits of maximum_requests
    fedPc,          \* position of each send_federation_request call
    nextItem,       \* next fresh queue key
    delivered,      \* history: items carried by a request the peer answered with
                    \* success, or skipped by the Push loop as needing no notice
    folded,         \* history: destination -> items received while it was
                    \* Running and in no batch issued since
    lastDone        \* history: destination -> the last transaction whose
                    \* result the handler took, and that result (kept
                    \* under SpecHistory only)

VARIABLES
    store,          \* persisted events (timeline and outliers): event id -> entry
    roomState,      \* current room state: slot -> event id
    keyCache,       \* servers whose signing keys are in pub_key_map
    vres            \* the result of validate_pdu the pipeline is holding

sendVars == <<now, nextTick, hpc, dbQueued, dbActive, channel, status, futures,
              permits, fedPc, nextItem, delivered, folded, lastDone>>

VARIABLES
    pdus,           \* events the timeline service finds with get_pdu
    stateAt,        \* pdu_shortstatehash / state_full_ids: event -> state before it
    rres            \* the result of resolve_state the pipeline is holding

VARIABLES
    backoff         \* the min_elapsed_duration computed for a failure count

VARIABLES
    known,          \* auth events the timeline service finds with get_pdu
    ares            \* the incoming event and the results of fetch_dependencies
                    \* and authorize_pdu the pipeline is holding

VARIABLES
    roomid_mutex_state, \* the map room id -> mutex: "absent", "free" or the holder
    adminPc,            \* position of each task that appends to a timeline
    appendsLeft,        \* appends the task still has to make under its guard
    adminCalls,         \* calls each task has started
    timelineLen         \* events appended to each room's timeline

VARIABLES
    stateres_mutex,     \* the process-wide mutex: holder and poison flag
    resolverPc,         \* position of each resolve_state call in its merge branch
    resolverCalls       \* merge-point resolutions each task has started

VARIABLES
    ldapDir,            \* the entries of the directory under base_dn
    ldapRes             \* the result of find_ldap_user the caller is holding

valVars == <<store, roomState, keyCache, vres>>

resVars == <<pdus, stateAt, rres>>

numVars == <<backoff>>

authVars == <<known, ares>>

lockVars == <<roomid_mutex_state, adminPc, appendsLeft, adminCalls, timelineLen>>

mutexVars == <<stateres_mutex, resolverPc, resolverCalls>>

ldapVars == <<ldapDir, ldapRes>>

vars == <<sendVars, valVars, resVars, numVars, authVars, lockVars, mutexVars,
          ldapVars>>

notLdapVars == <<sendVars, valVars, resVars, numVars, authVars, lockVars,
                 mutexVars>>

notSendVars == <<valVars, resVars, numVars, authVars, lockVars, mutexVars,
               ldapVars>>

notValVars == <<sendVars, resVars, numVars, authVars, lockVars, mutexVars,
               ldapVars>>

notResVars == <<sendVars, valVars, numVars, authVars, lockVars, mutexVars,
               ldapVars>>

notNumVars == <<sendVars, valVars, resVars, authVars, lockVars, mutexVars,
               ldapVars>>

notAuthVars == <<sendVars, valVars, resVars, numVars, lockVars, mutexVars,
               ldapVars>>

notLockVars == <<sendVars, valVars, resVars, numVars, authVars, mutexVars,
               ldapVars>>

notMutexVars == <<sendVars, valVars, resVars, numVars, authVars, lockVars,
               ldapVars>>

(***************************************************************************)
(* Helpers on sequences and sets.                                          *)
(***************************************************************************)
Min(a, b) == IF a < b THEN a ELSE b

SetMin(S) == CHOOSE x \in S : \A y \in S : x <= y

RECURSIVE SortedSeq(_)
SortedSeq(S) == IF S = {} THEN << >>
                ELSE LET m == SetMin(S) IN << m >> \o SortedSeq(S \ {m})

Range(s) == {s[i] : i \in 1 .. Len(s)}

Take(s, n) == SubSeq(s, 1, Min(n, Len(s)))

Count(s, x) == Cardinality({i \in 1 .. Len(s) : s[i] = x})

(***************************************************************************)
(* TransactionStatus; NoStatus is the absence of a map entry.              *)
(***************************************************************************)
NoStatus == [tag |-> "None"]

\* What the handler took from `futures.next()` for a destination.
NoneDone == [outcome |-> "none", events |-> << >>]

Done(outcome, events) == [outcome |-> outcome, events |-> events]

\* The history of results is kept from the start of the handler, or it is
\* not kept at all.
History == lastDone = [d \in OutgoingKind |-> NoneDone]

NotRecorded == [d \in OutgoingKind |-> Done("off", << >>)]

NoHistory == lastDone = NotRecorded

Record(h, d, done) == IF h = NotRecorded THEN h ELSE [h EXCEPT ![d] = done]

Running(events) == [tag |-> "Running", events |-> events]
Failed(tries, time) == [tag |-> "Failed", tries |-> tries, time |-> time]
Retrying(tries) == [tag |-> "Retrying", tries |-> tries]

(***************************************************************************)
(* min_elapsed_duration: Duration::from_secs(30) * tries * tries, capped   *)
(* at 24 h.                                                                *)
(***************************************************************************)
MinElapsedDuration(tries) ==
    LET d == BackoffBase * tries * tries
    IN IF d > BackoffCap THEN BackoffCap ELSE d

(***************************************************************************)
(* Data (the durable queue), by the storage contract of the spec:          *)
(* enqueue, mark_active, active_items, delete_active.  Iteration is in key *)
(* order.                                                                  *)
(***************************************************************************)
queue_requests(q, d, key) == [q EXCEPT ![d] = @ \cup {key}]

mark_as_active_queued(q, d, keys) == [q EXCEPT ![d] = @ \ keys]

mark_as_active_current(a, d, keys) == [a EXCEPT ![d] = @ \cup keys]

active_requests_for(a, d) == SortedSeq(a[d])

queued_requests(q, d) == SortedSeq(q[d])

delete_all_active_requests_for(a, d) == [a EXCEPT ![d] = {}]

(***************************************************************************)
(* handle_events futures.  pc: "wait" before maximum_requests.acquire(),   *)
(* "held" while the permit is held and the request is out, "ok"/"err" once *)
(* the future has its result ("noreg": the error of a missing appservice   *)
(* registration).  idx is the position of the Push loop over the pdus of   *)
(* the batch.                                                              *)
(***************************************************************************)
EphemeralEdu == 0

EduChoices == {<< >>, << EphemeralEdu >>}

handle_events(kind, events) ==
    [kind |-> kind, events |-> events, idx |-> 1,
     pc |-> IF kind = "Push" /\ events = << >> THEN "ok" ELSE "wait"]

\* utils::calculate_hash: the digest of the byte strings joined with the
\* separator byte; the digest is taken as collision free and stands for
\* its input.
HashSeparator == 255

RECURSIVE calculate_hash(_)
calculate_hash(keys) ==
    IF keys = << >> THEN << >>
    ELSE IF Len(keys) = 1 THEN Head(keys)
    ELSE Head(keys) \o << HashSeparator >> \o calculate_hash(Tail(keys))

\* The stored bytes of an event of a batch.
EventBytes(e) == << e >>

\* transaction_id / txn_id of the request handle_events sends for a batch.
transaction_id(events) ==
    calculate_hash([i \in 1 .. Len(events) |-> EventBytes(events[i])])

InFlightOf(fs, d) ==
    LET S == {f \in BagToSet(fs) : f.kind = d /\ f.pc \in {"wait", "held"}}
    IN BagCardinality([f \in S |-> fs[f]])

Push1(fs, f) == fs (+) SetToBag({f})

Remove1(fs, f) == fs (-) SetToBag({f})

(***************************************************************************)
(* select_events: decides from the destination's status whether a new      *)
(* transaction may start, and assembles its batch.                         *)
(*   new_events : sequence of keys just received (empty on the tick path)  *)
(*   edus       : what select_edus returns for a Normal destination        *)
(* Result: the new status entry, the new stores and Some(events) or None.  *)
(***************************************************************************)
None == [some |-> FALSE]
Some(events) == [some |-> TRUE, events |-> events]

select_events_status(st, new_events, t) ==
    CASE st.tag = "None" -> Running(<< >>)
      [] st.tag = "Running" -> Running(st.events \o new_events)
      [] st.tag = "Retrying" -> st
      [] st.tag = "Failed" ->
            IF t - st.time < MinElapsedDuration(st.tries)
            THEN st
            ELSE Retrying(st.tries)

\* Mutant: the Failed arm does not look at the time elapsed.
select_events_allow_nobackoff(st, t) ==
    CASE st.tag = "None" -> TRUE
      [] st.tag = "Running" -> FALSE
      [] st.tag = "Retrying" -> TRUE
      [] st.tag = "Failed" -> TRUE

select_events_allow(st, t) ==
    CASE st.tag = "None" -> TRUE
      [] st.tag = "Running" -> FALSE
      [] st.tag = "Retrying" -> TRUE
      [] st.tag = "Failed" -> ~(t - st.time < MinElapsedDuration(st.tries))

select_events_retry(st, t) ==
    st.tag = "Failed" /\ ~(t - st.time < MinElapsedDuration(st.tries))

select_events(d, new_events, st, q, a, t, edus) ==
    LET allow == select_events_allow(st, t)
        retry == select_events_retry(st, t)
        keys == Range(new_events)
    IN  [status |-> select_events_status(st, new_events, t),
         queued |-> IF allow THEN mark_as_active_queued(q, d, keys) ELSE q,
         active |-> IF allow THEN mark_as_active_current(a, d, keys) ELSE a,
         result |-> IF ~allow THEN None
                    ELSE IF retry
                         THEN Some(active_requests_for(a, d) \o new_events)
                         ELSE Some(new_events \o
                                   (IF d = "Normal" THEN edus ELSE << >>))]

(***************************************************************************)
(* Initial state: the service has been built, the handler task has not     *)
(* run yet.  The store holds two entries left by a previous run for one    *)
(* destination, each of them queued or marked active.                      *)
(***************************************************************************)
LeftoverItems == 1 .. 2

Leftover == [LeftoverItems -> {"queued", "active"}]

SendInit ==
    /\ now = 0
    /\ nextTick = 0
    /\ hpc = "start"
    /\ channel = << >>
    /\ status = [d \in OutgoingKind |-> NoStatus]
    /\ futures = EmptyBag
    /\ permits = MaxConcurrentRequests
    /\ fedPc = [c \in Callers |-> "idle"]
    /\ delivered = {}
    /\ folded = [d \in OutgoingKind |-> {}]
    /\ nextItem = 3
    /\ \E d \in OutgoingKind, l \in Leftover :
          /\ dbQueued = [k \in OutgoingKind |->
                            IF k = d THEN {i \in LeftoverItems : l[i] = "queued"}
                            ELSE {}]
          /\ dbActive = [k \in OutgoingKind |->
                            IF k = d THEN {i \in LeftoverItems : l[i] = "active"}
                            ELSE {}]

(***************************************************************************)
(* Initial state with a backlog: the previous run left MaxBacklog entries  *)
(* of a federation destination in the store, all queued or all marked      *)
(* active.                                                                 *)
(***************************************************************************)
MaxBacklog == 32

BacklogItems == (MaxItems + 1) .. (MaxItems + MaxBacklog)

SendInitBacklog ==
    /\ now = 0
    /\ nextTick = 0
    /\ hpc = "start"
    /\ channel = << >>
    /\ status = [d \in OutgoingKind |-> NoStatus]
    /\ futures = EmptyBag
    /\ permits = MaxConcurrentRequests
    /\ fedPc = [c \in Callers |-> "idle"]
    /\ delivered = {}
    /\ folded = [d \in OutgoingKind |-> {}]
    /\ NoHistory
    /\ nextItem = 3
    /\ \E l \in {"queued", "active"} :
          /\ dbQueued = [k \in OutgoingKind |->
                            IF k = "Normal" /\ l = "queued" THEN BacklogItems
                            ELSE {}]
          /\ dbActive = [k \in OutgoingKind |->
                            IF k = "Normal" /\ l = "active" THEN BacklogItems
                            ELSE {}]

(***************************************************************************)
(* send_pdu / send_push_pdu / send_pdu_appservice / send_reliable_edu:     *)
(* queue the item durably, then post it on the channel.                    *)
(***************************************************************************)
Enqueue(d) ==
    /\ nextItem <= MaxItems
    /\ Len(channel) < MaxChannel
    /\ dbQueued' = queue_requests(dbQueued, d, nextItem)
    /\ channel' = Append(channel, << d, nextItem >>)
    /\ nextItem' = nextItem + 1
    /\ UNCHANGED <<now, nextTick, hpc, dbActive, status, futures, permits,
                   fedPc, delivered>>
    /\ UNCHANGED <<folded, lastDone>>
    /\ UNCHANGED notSendVars

(***************************************************************************)
(* handler(), before the loop: items still marked active are sent again,   *)
(* one transaction per destination; entries beyond the limit are deleted.  *)
(***************************************************************************)
InitialTransaction(d) == Take(active_requests_for(dbActive, d), BatchLimit + 1)

HandlerStart ==
    /\ hpc = "start"
    /\ LET ds == {d \in OutgoingKind : dbActive[d] # {}}
       IN  /\ BagCardinality(futures) + Cardinality(ds) <= MaxInFlight
           /\ dbActive' = [d \in OutgoingKind |-> Range(InitialTransaction(d))]
           /\ status' = [d \in OutgoingKind |->
                            IF d \in ds THEN Running(<< >>) ELSE status[d]]
           /\ futures' = futures (+)
                  SetToBag({handle_events(d, InitialTransaction(d)) : d \in ds})
    /\ hpc' = "loop"
    /\ UNCHANGED <<now, nextTick, dbQueued, channel, permits, fedPc, nextItem,
                   delivered>>
    /\ UNCHANGED <<folded, lastDone>>
    /\ UNCHANGED notSendVars

(***************************************************************************)
(* handler(), branch `Some(response) = futures.next()`.                    *)
(***************************************************************************)
PendingEvents(d) ==
    IF status[d].tag = "Running" THEN status[d].events ELSE << >>

NewDbEvents(d) == Take(queued_requests(dbQueued, d), BatchLimit)

HandleOk(f) ==
    LET d == f.kind
        new_db_events == NewDbEvents(d)
        pending_events == PendingEvents(d) \o new_db_events
        cleared == delete_all_active_requests_for(dbActive, d)
    IN  /\ dbActive' = mark_as_active_current(cleared, d, Range(new_db_events))
        /\ dbQueued' = mark_as_active_queued(dbQueued, d, Range(new_db_events))
        /\ IF pending_events # << >>
           THEN /\ status' = [status EXCEPT ![d] = Running(<< >>)]
                /\ futures' = Push1(Remove1(futures, f),
                                    handle_events(d, pending_events))
           ELSE /\ status' = [status EXCEPT ![d] = NoStatus]
                /\ futures' = Remove1(futures, f)
        /\ folded' = [folded EXCEPT ![d] = @ \ Range(pending_events)]
        /\ lastDone' = Record(lastDone, d, Done("ok", f.events))

FailedStatus(st, t) ==
    CASE st.tag = "Running" -> Failed(1, t)
      [] st.tag = "Retrying" -> Failed(st.tries + 1, t)
      [] st.tag = "Failed" -> st
      [] st.tag = "None" -> st

HandleErr(f) ==
    /\ status' = [status EXCEPT ![f.kind] = FailedStatus(@, now)]
    /\ futures' = Remove1(futures, f)
    /\ lastDone' = Record(lastDone, f.kind, Done("err", f.events))
    /\ UNCHANGED <<dbQueued, dbActive, folded>>

HandleResponse ==
    /\ hpc = "loop"
    /\ \E f \in BagToSet(futures) :
          \/ f.pc = "ok" /\ HandleOk(f)
          \/ f.pc \in {"err", "noreg"} /\ HandleErr(f)
    /\ UNCHANGED <<now, nextTick, hpc, channel, permits, fedPc, nextItem,
                   delivered>>
    /\ UNCHANGED notSendVars

(***************************************************************************)
(* handler(), branch `receiver.recv()`.                                    *)
(***************************************************************************)
Receive ==
    /\ hpc = "loop"
    /\ channel # << >>
    /\ \E edus \in EduChoices :
          LET d == Head(channel)[1]
              key == Head(channel)[2]
              r == select_events(d, << key >>, status[d], dbQueued, dbActive,
                                 now, edus)
          IN  /\ d # "Normal" => edus = << >>
              /\ status' = [status EXCEPT ![d] = r.status]
              /\ dbQueued' = r.queued
              /\ dbActive' = r.active
              /\ IF r.result.some
                 THEN /\ BagCardinality(futures) < MaxInFlight
                      /\ futures' = Push1(futures,
                                          handle_events(d, r.result.events))
                 ELSE futures' = futures
              /\ folded' = [folded EXCEPT ![d] =
                               IF r.result.some THEN @ \ Range(r.result.events)
                               ELSE IF status[d].tag = "Running" THEN @ \cup {key}
                               ELSE @]
    /\ channel' = Tail(channel)
    /\ UNCHANGED <<now, nextTick, hpc, permits, fedPc, nextItem, delivered,
                   lastDone>>
    /\ UNCHANGED notSendVars

(***************************************************************************)
(* handler(), branch `interval.tick()`.                                    *)
(***************************************************************************)
RetryDestinations ==
    {d \in OutgoingKind :
        /\ status[d].tag = "Failed"
        /\ ~(now - status[d].time < MinElapsedDuration(status[d].tries))}

TickSelect(d) ==
    select_events(d, << >>, status[d], dbQueued, dbActive, now, << >>)

Tick ==
    /\ hpc = "loop"
    /\ now >= nextTick
    /\ nextTick' = nextTick + TickInterval
    /\ LET ds == RetryDestinations
           started == {d \in ds : TickSelect(d).result.some}
       IN  /\ BagCardinality(futures) + Cardinality(started) <= MaxInFlight
           /\ status' = [d \in OutgoingKind |->
                            IF d \in ds THEN TickSelect(d).status
                            ELSE status[d]]
           /\ dbQueued' = [d \in OutgoingKind |->
                            IF d \in ds THEN TickSelect(d).queued[d]
                            ELSE dbQueued[d]]
           /\ dbActive' = [d \in OutgoingKind |->
                            IF d \in ds THEN TickSelect(d).active[d]
                            ELSE dbActive[d]]
           /\ futures' = futures (+)
                  SetToBag({handle_events(d, TickSelect(d).result.events) :
                               d \in started})
           /\ folded' = [d \in OutgoingKind |->
                            IF d \in started
                            THEN folded[d] \ Range(TickSelect(d).result.events)
                            ELSE folded[d]]
    /\ UNCHANGED <<now, hpc, channel, permits, fedPc, nextItem, delivered,
                   lastDone>>
    /\ UNCHANGED notSendVars

AdvanceTime ==
    /\ now + BackoffBase <= MaxTime
    /\ now' = now + BackoffBase
    /\ UNCHANGED <<nextTick, hpc, dbQueued, dbActive, channel, status, futures,
                   permits, fedPc, nextItem, delivered>>
    /\ UNCHANGED <<folded, lastDone>>
    /\ UNCHANGED notSendVars

(***************************************************************************)
(* Steps of one handle_events future.                                      *)
(***************************************************************************)
Replace(f, g) == futures' = Push1(Remove1(futures, f), g)

DurableItems(events) == Range(events) \cap (Items \cup BacklogItems)

PushAdvance(f) ==
    [f EXCEPT !.idx = f.idx + 1,
              !.pc = IF f.idx + 1 > Len(f.events) THEN "ok" ELSE "wait"]

\* get_pdu_from_id / get_pusher / notification_count return an error: the
\* future returns Err((kind, e)) before any permit is taken.
FutStorageError ==
    /\ \E f \in BagToSet(futures) :
          /\ f.pc = "wait"
          /\ Replace(f, [f EXCEPT !.pc = "err"])
    /\ UNCHANGED <<now, nextTick, hpc, dbQueued, dbActive, channel, status,
                   permits, fedPc, nextItem, delivered>>
    /\ UNCHANGED <<folded, lastDone>>
    /\ UNCHANGED notSendVars

\* services().sending.maximum_requests.acquire().await
AcquirePermit(p) == p - 1

\* Mutant: the permit is not given back.
ReleasePermitLeaked(p) == p

ReleasePermit(p) == p + 1

FutAcquire ==
    /\ permits > 0
    /\ \E f \in BagToSet(futures) :
          /\ f.pc = "wait"
          /\ Replace(f, [f EXCEPT !.pc = "held"])
    /\ permits' = AcquirePermit(permits)
    /\ UNCHANGED <<now, nextTick, hpc, dbQueued, dbActive, channel, status,
                   fedPc, nextItem, delivered>>
    /\ UNCHANGED <<folded, lastDone>>
    /\ UNCHANGED notSendVars

\* The request returns; Normal and Appservice map the response to the
\* future's result, Push discards it and goes on with the next pdu.
FutRespond ==
    /\ \E f \in BagToSet(futures), ok \in BOOLEAN :
          /\ f.pc = "held"
          /\ IF f.kind = "Push"
             THEN /\ Replace(f, PushAdvance(f))
                  /\ delivered' = IF ok
                                  THEN delivered \cup DurableItems(<< f.events[f.idx] >>)
                                  ELSE delivered
             ELSE /\ Replace(f, [f EXCEPT !.pc = IF ok THEN "ok" ELSE "err"])
                  /\ delivered' = IF ok
                                  THEN delivered \cup DurableItems(f.events)
                                  ELSE delivered
    /\ permits' = ReleasePermit(permits)
    /\ UNCHANGED <<now, nextTick, hpc, dbQueued, dbActive, channel, status,
                   fedPc, nextItem>>
    /\ UNCHANGED <<folded, lastDone>>
    /\ UNCHANGED notSendVars

\* get_registration(id) is None: `?` returns Err and drops the permit.
FutRegistrationMissing ==
    /\ \E f \in BagToSet(futures) :
          /\ f.kind = "Appservice"
          /\ f.pc = "held"
          /\ Replace(f, [f EXCEPT !.pc = "noreg"])
    /\ permits' = ReleasePermit(permits)
    /\ UNCHANGED <<now, nextTick, hpc, dbQueued, dbActive, channel, status,
                   fedPc, nextItem, delivered>>
    /\ UNCHANGED <<folded, lastDone>>
    /\ UNCHANGED notSendVars

\* Push loop `continue`: the pdu is redacted or the pusher is gone.
FutPushSkip ==
    /\ \E f \in BagToSet(futures) :
          /\ f.kind = "Push"
          /\ f.pc = "wait"
          /\ Replace(f, PushAdvance(f))
          /\ delivered' = delivered \cup DurableItems(<< f.events[f.idx] >>)
    /\ UNCHANGED <<now, nextTick, hpc, dbQueued, dbActive, channel, status,
                   permits, fedPc, nextItem>>
    /\ UNCHANGED <<folded, lastDone>>
    /\ UNCHANGED notSendVars

(***************************************************************************)
(* send_federation_request, called by the inbound pipeline.                *)
(***************************************************************************)
FedCall(c) ==
    /\ fedPc[c] = "idle"
    /\ fedPc' = [fedPc EXCEPT ![c] = "wait"]
    /\ UNCHANGED <<now, nextTick, hpc, dbQueued, dbActive, channel, status,
                   futures, permits, nextItem, delivered>>
    /\ UNCHANGED <<folded, lastDone>>
    /\ UNCHANGED notSendVars

FedAcquire(c) ==
    /\ fedPc[c] = "wait"
    /\ permits > 0
    /\ permits' = AcquirePermit(permits)
    /\ fedPc' = [fedPc EXCEPT ![c] = "held"]
    /\ UNCHANGED <<now, nextTick, hpc, dbQueued, dbActive, channel, status,
                   futures, nextItem, delivered>>
    /\ UNCHANGED <<folded, lastDone>>
    /\ UNCHANGED notSendVars

\* The response, an error or the 2 min timeout: the permit is dropped on
\* each of them.
FedOutcome == {"response", "error", "timeout"}

\* Mutant: the timeout error returns without giving the permit back.
FedReturnLeaking(c) ==
    /\ fedPc[c] = "held"
    /\ \E o \in FedOutcome :
          /\ permits' = (IF o = "timeout" THEN permits ELSE ReleasePermit(permits))
          /\ fedPc' = [fedPc EXCEPT ![c] = "idle"]
    /\ UNCHANGED <<now, nextTick, hpc, dbQueued, dbActive, channel, status,
                   futures, nextItem, delivered>>
    /\ UNCHANGED <<folded, lastDone>>
    /\ UNCHANGED notSendVars

FedReturn(c) ==
    /\ fedPc[c] = "held"
    /\ \E o \in FedOutcome :
          /\ permits' = ReleasePermit(permits)
          /\ fedPc' = [fedPc EXCEPT ![c] = "idle"]
    /\ UNCHANGED <<now, nextTick, hpc, dbQueued, dbActive, channel, status,
                   futures, nextItem, delivered>>
    /\ UNCHANGED <<folded, lastDone>>
    /\ UNCHANGED notSendVars

SendNext ==
    \/ \E d \in OutgoingKind : Enqueue(d)
    \/ HandlerStart
    \/ HandleResponse
    \/ Receive
    \/ Tick
    \/ AdvanceTime
    \/ FutStorageError
    \/ FutAcquire
    \/ FutRespond
    \/ FutRegistrationMissing
    \/ FutPushSkip
    \/ \E c \in Callers : FedCall(c)
    \/ \E c \in Callers : FedAcquire(c)
    \/ \E c \in Callers : FedReturn(c)

(***************************************************************************)
(* validate_pdu.                                                           *)
(*                                                                         *)
(* An incoming event is described by what the checks of validate_pdu look  *)
(* at.  Two events with the same event_id differ in their payload only:    *)
(* the id is the reference hash, which does not cover the content, while   *)
(* the content hash covers it, so the hash matches for payload "orig" and  *)
(* not for "tampered".                                                     *)
(***************************************************************************)
EventIds == {"$a", "$b"}

Servers == {"s1"}

Shapes == {"invalid_json", "bad_format", "no_ts", "ts_not_int", "ts_negative",
           "ok"}

Payloads == {"orig", "tampered"}

Pdus == [event_id : EventIds, origin : Servers, shape : Shapes,
         sig : BOOLEAN, payload : Payloads, unsigned : BOOLEAN,
         redactable : BOOLEAN]

NoEntry == [known |-> FALSE]

NoResult == [validated |-> FALSE]

Ok(value) == [ok |-> TRUE, value |-> value]

Err(error) == [ok |-> FALSE, error |-> error]

\* serde_json::from_str(pdu.content.get())
ParseContent(pdu) ==
    [origin |-> pdu.origin, payload |-> pdu.payload, unsigned |-> pdu.unsigned]

\* Mutant: the unsigned field stays in the value.
KeepUnsigned(value) == value

\* value.remove("unsigned")
RemoveUnsigned(value) == [value EXCEPT !.unsigned = FALSE]

\* ruma::canonical_json::redact
redact(value) == [value EXCEPT !.payload = "redacted", !.unsigned = FALSE]

\* ruma::signatures::verify_event with the filtered keys
verify_event(pdu) ==
    IF ~pdu.sig THEN "Err"
    ELSE IF pdu.payload = "orig" THEN "All" ELSE "Signatures"

\* services().rooms.timeline.get_pdu_json(&pdu.event_id)?.is_some()
get_pdu_json_is_some(st, event_id) == st[event_id].known

\* fetch_required_signing_keys: the keys of the origin are in the cache, or
\* are requested from the network, which may fail.
fetch_required_signing_keys(cache, pdu, fetched) ==
    IF pdu.origin \in cache \/ fetched THEN cache \cup {pdu.origin} ELSE cache

\* Mutant: the redacted form is returned without looking for a stored event
\* of the same id.
validate_pdu_unchecked(pdu, st, keys) ==
    LET value == RemoveUnsigned(ParseContent(pdu))
    IN  IF pdu.shape # "ok" \/ pdu.origin \notin keys \/ verify_event(pdu) = "Err"
          THEN Err("rejected")
        ELSE IF verify_event(pdu) = "Signatures"
          THEN IF ~pdu.redactable THEN Err("Redaction failed")
               ELSE Ok(redact(value))
        ELSE Ok(value)

validate_pdu(pdu, st, keys) ==
    LET value == RemoveUnsigned(ParseContent(pdu))
    IN  IF pdu.shape = "invalid_json"
          THEN Err("Event content is invalid JSON.")
        ELSE IF pdu.shape = "bad_format"
          THEN Err("Received Invalid PDU")
        ELSE IF pdu.origin \notin keys
          THEN Err("Could not fetch signing keys")
        ELSE IF pdu.shape = "no_ts"
          THEN Err("Invalid PDU, no origin_server_ts field")
        ELSE IF pdu.shape = "ts_not_int"
          THEN Err("origin_server_ts must be an integer")
        ELSE IF pdu.shape = "ts_negative"
          THEN Err("Time must be after the unix epoch")
        ELSE IF verify_event(pdu) = "Err"
          THEN Err("Signature verification failed")
        ELSE IF verify_event(pdu) = "Signatures"
          THEN IF ~pdu.redactable
                 THEN Err("Redaction failed")
               ELSE IF get_pdu_json_is_some(st, pdu.event_id)
                 THEN Err("Event was redacted and we already knew about it")
               ELSE Ok(redact(value))
        ELSE Ok(value)

\* The keys are fetched only when the event passed the format check.
KeysAfter(cache, pdu, fetched) ==
    IF pdu.shape \in {"invalid_json", "bad_format"} THEN cache
    ELSE fetch_required_signing_keys(cache, pdu, fetched)

ValInit ==
    /\ store = [e \in EventIds |-> NoEntry]
    /\ roomState = "none"
    /\ keyCache = {}
    /\ vres = NoResult

\* Mutant: validation stores the form it accepts.
ValidatePduStoring(pdu, fetched) ==
    /\ ~vres.validated
    /\ keyCache' = KeysAfter(keyCache, pdu, fetched)
    /\ vres' = [validated |-> TRUE, pdu |-> pdu,
                result |-> validate_pdu(pdu, store, keyCache')]
    /\ store' = IF vres'.result.ok
                THEN [store EXCEPT ![pdu.event_id] =
                         [known |-> TRUE, bytes |-> pdu,
                          form |-> vres'.result.value]]
                ELSE store
    /\ UNCHANGED roomState
    /\ UNCHANGED notValVars

ValidatePdu(pdu, fetched) ==
    /\ ~vres.validated
    /\ keyCache' = KeysAfter(keyCache, pdu, fetched)
    /\ vres' = [validated |-> TRUE, pdu |-> pdu,
                result |-> validate_pdu(pdu, store, keyCache')]
    /\ UNCHANGED <<store, roomState>>
    /\ UNCHANGED notValVars

\* The pipeline goes on with an accepted event and stores its canonical
\* form under the event id.
Persist ==
    /\ vres.validated
    /\ vres.result.ok
    /\ store' = [store EXCEPT ![vres.pdu.event_id] =
                    [known |-> TRUE, bytes |-> vres.pdu,
                     form |-> vres.result.value]]
    /\ vres' = NoResult
    /\ UNCHANGED <<roomState, keyCache>>
    /\ UNCHANGED notValVars

\* The pipeline drops the event (rejected, or not used further).
Drop ==
    /\ vres.validated
    /\ vres' = NoResult
    /\ UNCHANGED <<store, roomState, keyCache>>
    /\ UNCHANGED notValVars

\* A stored event is appended to the timeline and takes its slot of the
\* room state (the events of the model share one slot).
AppendPdu(e) ==
    /\ store[e].known
    /\ roomState # e
    /\ roomState' = e
    /\ UNCHANGED <<store, keyCache, vres>>
    /\ UNCHANGED notValVars

ValNext ==
    \/ \E pdu \in Pdus, fetched \in BOOLEAN : ValidatePdu(pdu, fetched)
    \/ Persist
    \/ Drop
    \/ \E e \in EventIds : AppendPdu(e)

(***************************************************************************)
(* resolve_state.                                                          *)
(*                                                                         *)
(* Events: the create event "C", two membership events "A" and "B" of the  *)
(* same user, an event "X" without state key, and "D", the create event of *)
(* another room.  A state maps each slot to the event id that holds it,    *)
(* "-" when the slot is empty.                                             *)
(***************************************************************************)
MaxPrev == 2
MaxRemote == 2

ResEvents == {"C", "A", "B", "X", "D"}

Slots == {"create", "member"}

\* (kind, state_key) of an event; "none" when it has no state key.
SlotOf(e) ==
    CASE e \in {"C", "D"} -> "create"
      [] e \in {"A", "B"} -> "member"
      [] OTHER -> "none"

EmptyState == [k \in Slots |-> "-"]

Uncached == [cached |-> FALSE, state |-> EmptyState]

Cached(state) == [cached |-> TRUE, state |-> state]

\* Sequences of distinct elements of S with 1 .. n elements.
DistinctSeqs(S, n) ==
    {q \in UNION {[1 .. k -> S] : k \in 1 .. n} :
        \A i, j \in 1 .. Len(q) : i # j => q[i] # q[j]}

\* Mutant: the parent is inserted only into a vacant slot.
OverlayVacant(state, e) ==
    IF SlotOf(e) # "none" /\ state[SlotOf(e)] = "-"
    THEN [state EXCEPT ![SlotOf(e)] = e] ELSE state

\* state.insert(shortstatekey, prev_event) when the parent has a state key
Overlay(state, e) ==
    IF SlotOf(e) # "none" THEN [state EXCEPT ![SlotOf(e)] = e] ELSE state

\* state_res::resolve: slots on which the forks agree are kept; a slot in
\* conflict goes to the candidate that is last in the algorithm's total
\* order of the conflicted events (power level, origin_server_ts, event
\* id), which the model takes as the order of EventRank.
EventRank(e) ==
    CASE e = "C" -> 0
      [] e = "A" -> 1
      [] e = "B" -> 2
      [] e = "X" -> 3
      [] e = "D" -> 4

Winner(cands) == CHOOSE e \in cands : \A o \in cands : EventRank(o) <= EventRank(e)

state_res_resolve(fork_states) ==
    [k \in Slots |->
        LET cands == {f[k] : f \in fork_states} \ {"-"}
        IN IF cands = {} THEN "-" ELSE Winner(cands)]

SomeState(state) == [kind |-> "state", state |-> state]

NoState == [kind |-> "none"]

ResError(error) == [kind |-> "error", error |-> error]

\* extremity_sstatehashes: HashMap keyed by the parents' state hash; an
\* insert under a key that is present replaces the parent stored there.
ExtremityKeys(prev, sa) == {sa[prev[i]].state : i \in 1 .. Len(prev)}

ExtremityParent(prev, sa, key) ==
    LET last == CHOOSE i \in 1 .. Len(prev) :
                   /\ sa[prev[i]].state = key
                   /\ \A j \in 1 .. Len(prev) : sa[prev[j]].state = key => j <= i
    IN prev[last]

ForkStates(prev, sa) ==
    {Overlay(key, ExtremityParent(prev, sa, key)) : key \in ExtremityKeys(prev, sa)}

\* fork_states.len(): one fork state is pushed for every entry of
\* extremity_sstatehashes.
fork_states_len(prev, sa) == Cardinality(ExtremityKeys(prev, sa))

\* Strategies 1 and 2 of resolve_state: state_at_incoming_event, or the
\* error that ends the function.
LocalState(prev, ps, sa, libOk) ==
    IF Len(prev) = 1
    THEN LET p == prev[1]
         IN  IF ~sa[p].cached THEN NoState
             ELSE IF p \notin ps
               THEN ResError("Could not find prev event, but we know the state.")
             ELSE SomeState(Overlay(sa[p].state, p))
    ELSE LET okay == \A i \in 1 .. Len(prev) :
                        prev[i] \in ps /\ sa[prev[i]].cached
         IN  IF ~okay THEN NoState
             ELSE IF libOk THEN SomeState(state_res_resolve(ForkStates(prev, sa)))
             ELSE NoState

\* state.insert(shortstatekey, id): the later event takes the slot.
EntryInsertOverwriting(state, e) == SomeState([state EXCEPT ![SlotOf(e)] = e])

\* match state.entry(shortstatekey): a vacant slot takes the event, an
\* occupied one ends resolve_state.
EntryInsert(state, e) ==
    IF state[SlotOf(e)] # "-"
    THEN ResError("State event's type and state_key combination exists multiple times.")
    ELSE SomeState([state EXCEPT ![SlotOf(e)] = e])

\* Strategy 3: the state map built from the events of the /state_ids reply
\* that fetch_and_handle_outliers returned.
RECURSIVE RemoteStateFrom(_, _)
RemoteStateFrom(state_vec, state) ==
    IF state_vec = << >> THEN SomeState(state)
    ELSE LET e == Head(state_vec)
         IN  IF SlotOf(e) = "none"
               THEN ResError("Found non-state pdu in state events.")
             ELSE LET inserted == EntryInsert(state, e)
                  IN  IF inserted.kind = "error" THEN inserted
                      ELSE RemoteStateFrom(Tail(state_vec), inserted.state)

\* Mutant: the create slot of the snapshot is not compared.
RemoteStateUnchecked(reply, state_vec) ==
    IF ~reply.ok THEN ResError("Fetching state for event failed")
    ELSE RemoteStateFrom(state_vec, EmptyState)

RemoteState(reply, state_vec) ==
    IF ~reply.ok THEN ResError("Fetching state for event failed")
    ELSE LET r == RemoteStateFrom(state_vec, EmptyState)
         IN  IF r.kind = "state" /\ r.state["create"] # "C"
             THEN ResError("Incoming event refers to wrong create event.")
             ELSE r

\* The /state_ids request sent for every event.
state_ids_requested_always(prev, ps, sa, libOk) == TRUE

\* `if state_at_incoming_event.is_none()`: the /state_ids request is sent.
state_ids_requested(prev, ps, sa, libOk) ==
    LocalState(prev, ps, sa, libOk).kind = "none"

resolve_state(prev, ps, sa, libOk, reply, state_vec) ==
    LET local == LocalState(prev, ps, sa, libOk)
    IN  IF local.kind = "none" THEN RemoteState(reply, state_vec) ELSE local

\* The replies of the origin: an error, or a list of state event ids.
NoReply == [ok |-> FALSE, pdu_ids |-> << >>]

Reply(pdu_ids) == [ok |-> TRUE, pdu_ids |-> pdu_ids]

RemoteReplies ==
    {NoReply} \cup {Reply(q) : q \in DistinctSeqs(ResEvents, MaxRemote) \cup {<< >>}}

\* fetch_and_handle_outliers returns the events of the list it could
\* obtain: all of them, or all but the one at position `missing`.
Fetched(reply, missing) ==
    LET ids == reply.pdu_ids
    IN  IF missing \in 1 .. Len(ids)
        THEN SubSeq(ids, 1, missing - 1) \o SubSeq(ids, missing + 1, Len(ids))
        ELSE ids

\* Inputs of one run: whether state_res::resolve succeeds (it runs only for
\* several parents), and the reply to /state_ids (requested only when the
\* local strategies give no state).
ResolveOutcomes(prev) == IF Len(prev) = 1 THEN {TRUE} ELSE BOOLEAN

RepliesFor(prev) ==
    IF \E libOk \in ResolveOutcomes(prev) :
          LocalState(prev, pdus, stateAt, libOk).kind = "none"
    THEN RemoteReplies ELSE {NoReply}

NotResolved == [resolved |-> FALSE]

ResInit ==
    /\ pdus = {"C"}
    /\ stateAt = [e \in ResEvents |-> IF e = "C" THEN Cached(EmptyState) ELSE Uncached]
    /\ rres = NotResolved

\* resolve_state for incoming event e with the given prev_events.
ResolveState(e, prev, libOk, reply, missing) ==
    /\ ~rres.resolved
    /\ e \notin pdus
    /\ SlotOf(e) # "create"
    /\ LET local == LocalState(prev, pdus, stateAt, libOk)
           state_vec == Fetched(reply, missing)
       IN  /\ local.kind # "none" => (reply = NoReply /\ missing = 0)
           /\ Len(prev) = 1 => libOk
           /\ rres' = [resolved |-> TRUE, event |-> e, prev |-> prev,
                       libOk |-> libOk, reply |-> reply, state_vec |-> state_vec,
                       remote |-> state_ids_requested(prev, pdus, stateAt, libOk),
                       result |-> resolve_state(prev, pdus, stateAt, libOk,
                                                reply, state_vec)]
           /\ pdus' = IF local.kind = "none"
                      THEN pdus \cup (Range(state_vec) \ {e}) ELSE pdus
    /\ UNCHANGED stateAt
    /\ UNCHANGED notResVars

\* The event goes on to the timeline with the state resolved for it.
Upgrade ==
    /\ rres.resolved
    /\ rres.result.kind = "state"
    /\ pdus' = pdus \cup {rres.event}
    /\ stateAt' = [stateAt EXCEPT ![rres.event] = Cached(rres.result.state)]
    /\ rres' = NotResolved
    /\ UNCHANGED notResVars

\* The event stays an outlier: stored, without state.
Outlier ==
    /\ rres.resolved
    /\ pdus' = pdus \cup {rres.event}
    /\ rres' = NotResolved
    /\ UNCHANGED stateAt
    /\ UNCHANGED notResVars

ResolveIncoming ==
    /\ ~rres.resolved
    /\ \E e \in ResEvents \ pdus, prev \in DistinctSeqs(pdus, MaxPrev) :
          \E libOk \in ResolveOutcomes(prev), reply \in RepliesFor(prev) :
             \E missing \in 0 .. Len(reply.pdu_ids) :
                ResolveState(e, prev, libOk, reply, missing)

ResNext ==
    \/ ResolveIncoming
    \/ Upgrade
    \/ Outlier

(***************************************************************************)
(* min_elapsed_duration with the widths of the code: the failure count is  *)
(* a u32, Duration holds its seconds in a u64, and Duration * u32 panics   *)
(* ("overflow when multiplying duration by scalar") when the product does  *)
(* not fit.  Numbers are little-endian sequences of digits in base Radix,  *)
(* without leading zeros.                                                  *)
(***************************************************************************)
MaxTries == 120

Radix == 100 * 100

U32Max == << 7295, 9496, 42 >>

U64Max == << 1615, 955, 737, 6744, 1844 >>

RECURSIVE ToBig(_)
ToBig(n) == IF n = 0 THEN << >> ELSE << n % Radix >> \o ToBig(n \div Radix)

RECURSIVE Trim(_)
Trim(a) ==
    IF a # << >> /\ a[Len(a)] = 0 THEN Trim(SubSeq(a, 1, Len(a) - 1)) ELSE a

RECURSIVE BigMulDigit(_, _, _)
BigMulDigit(a, m, carry) ==
    IF a = << >> THEN (IF carry = 0 THEN << >> ELSE << carry >>)
    ELSE LET v == Head(a) * m + carry
         IN  << v % Radix >> \o BigMulDigit(Tail(a), m, v \div Radix)

RECURSIVE BigAdd(_, _, _)
BigAdd(a, b, carry) ==
    IF a = << >> /\ b = << >> THEN (IF carry = 0 THEN << >> ELSE << carry >>)
    ELSE LET x == IF a = << >> THEN 0 ELSE Head(a)
             y == IF b = << >> THEN 0 ELSE Head(b)
             v == x + y + carry
         IN  << v % Radix >> \o
             BigAdd(IF a = << >> THEN a ELSE Tail(a),
                    IF b = << >> THEN b ELSE Tail(b), v \div Radix)

RECURSIVE BigMul(_, _)
BigMul(a, b) ==
    IF b = << >> THEN << >>
    ELSE LET rest == BigMul(a, Tail(b))
         IN  Trim(BigAdd(BigMulDigit(a, Head(b), 0),
                         IF rest = << >> THEN rest ELSE << 0 >> \o rest, 0))

RECURSIVE BigLess(_, _)
BigLess(a, b) ==
    IF Len(a) # Len(b) THEN Len(a) < Len(b)
    ELSE IF a = << >> THEN FALSE
    ELSE IF a[Len(a)] # b[Len(b)] THEN a[Len(a)] < b[Len(b)]
    ELSE BigLess(SubSeq(a, 1, Len(a) - 1), SubSeq(b, 1, Len(b) - 1))

\* The results of a Duration computation: a number of seconds, or a panic.
Secs(secs) == [panic |-> FALSE, secs |-> secs]

Panic == [panic |-> TRUE, secs |-> << >>]

\* impl Mul<u32> for Duration: checked_mul(rhs).expect(..)
duration_mul(secs, rhs) ==
    LET p == BigMul(secs, rhs)
    IN  IF BigLess(U64Max, p) THEN Panic ELSE Secs(p)

\* Duration::from_secs(30) * tries * tries, capped (tick branch of handler)
tick_min_elapsed_duration(tries) ==
    LET a == duration_mul(ToBig(BackoffBase), tries)
        b == duration_mul(a.secs, tries)
    IN  IF a.panic THEN Panic
        ELSE IF b.panic THEN Panic
        ELSE IF BigLess(ToBig(BackoffCap), b.secs) THEN Secs(ToBig(BackoffCap))
        ELSE b

\* the same computation in the Failed arm of select_events
select_min_elapsed_duration(tries) ==
    LET a == duration_mul(ToBig(BackoffBase), tries)
        b == duration_mul(a.secs, tries)
    IN  IF a.panic THEN Panic
        ELSE IF b.panic THEN Panic
        ELSE IF BigLess(ToBig(BackoffCap), b.secs) THEN Secs(ToBig(BackoffCap))
        ELSE b

\* Failure counts: the small ones, and counts near the ends of the u32
\* range and near the largest n with 30 * n * n <= u64::MAX.
FailCounts ==
    {ToBig(n) : n \in 0 .. MaxTries}
       \cup {<< 157, 8415, 7 >>, << 158, 8415, 7 >>, << 3648, 4748, 21 >>,
             << 7294, 9496, 42 >>, U32Max}

NotComputed == [computed |-> FALSE]

BackoffInit == backoff = NotComputed

\* A destination with status Failed(tries, _) is looked at by the tick and
\* by select_events.
ComputeBackoff(tries) ==
    /\ ~backoff.computed
    /\ backoff' = [computed |-> TRUE, tries |-> tries,
                   tick |-> tick_min_elapsed_duration(tries),
                   select |-> select_min_elapsed_duration(tries)]
    /\ UNCHANGED notNumVars

ForgetBackoff ==
    /\ backoff.computed
    /\ backoff' = NotComputed
    /\ UNCHANGED notNumVars

BackoffNext ==
    \/ \E tries \in FailCounts : ComputeBackoff(tries)
    \/ ForgetBackoff

(***************************************************************************)
(* fetch_dependencies and authorize_pdu.                                   *)
(*                                                                         *)
(* Auth events: "C", the create event of the room; "D", the create event   *)
(* of another room; "P", the power levels, "M", the sender's membership    *)
(* event and "X", a message event, which has no state key.                 *)
(* An incoming event is described by the auth events it cites, by          *)
(* the room version rule room_create_event_id_as_room_id, by whether it is *)
(* a create event itself, and by what the remaining checks of the two rule *)
(* functions say about it.                                                 *)
(***************************************************************************)
MaxAuth == 2

AuthEvents == {"C", "D", "P", "M", "X"}

\* (kind, state_key) of an auth event; "none" when it has no state key.
AuthKind(e) ==
    CASE e \in {"C", "D"} -> "create"
      [] e = "P" -> "power_levels"
      [] e = "M" -> "member"
      [] OTHER -> "none"

\* room_id of an auth event
AuthRoom(e) == IF e = "D" THEN "other" ELSE "room"

AuthPdus ==
    [auth_events : DistinctSeqs(AuthEvents, MaxAuth) \cup {<< >>},
     id_as_room_id : BOOLEAN, is_create : BOOLEAN,
     independent_ok : BOOLEAN, dependent_ok : BOOLEAN]

OkUnit == [ok |-> TRUE, error |-> "-"]

ErrOf(error) == [ok |-> FALSE, error |-> error]

\* The function does not return: the thread panics with the message.
Panicked(message) == [ok |-> FALSE, error |-> "-", panic |-> message]

\* Mutant: an auth event that could not be obtained is an error.
fetch_dependencies_strict(pdu, kn, fetched) ==
    IF Range(pdu.auth_events) \subseteq kn \cup fetched THEN OkUnit
    ELSE ErrOf("Failed to fetch auth events")

\* fetch_dependencies: the value of fetch_and_handle_outliers is dropped.
fetch_dependencies(pdu, kn, fetched) == OkUnit

\* insert_auth_event over pdu.auth_events, then over the create event named
\* by the room id: the ids that auth_events_by_event_id holds.
auth_events_by_event_id(pdu, kn) ==
    {e \in Range(pdu.auth_events) : e \in kn}
       \cup (IF pdu.id_as_room_id /\ ~pdu.is_create /\ "C" \in kn
             THEN {"C"} ELSE {})

\* state_res::check_state_independent_auth_rules with the lookup
\* |event_id| auth_events_by_event_id.get(event_id): every cited auth event
\* must be found and be of the event's room, and the create event must be
\* among them (or, by the room id, be found); a create event has rules of
\* its own.  TRUE stands for Ok(()).
check_state_independent_auth_rules(pdu, by_id) ==
    IF pdu.is_create THEN pdu.independent_ok
    ELSE IF \E e \in Range(pdu.auth_events) : e \notin by_id THEN FALSE
    ELSE IF \E e \in Range(pdu.auth_events) : AuthRoom(e) # "room" THEN FALSE
    ELSE IF ~pdu.id_as_room_id
              /\ ~\E e \in Range(pdu.auth_events) : AuthKind(e) = "create"
           THEN FALSE
    ELSE IF pdu.id_as_room_id /\ "C" \notin by_id THEN FALSE
    ELSE pdu.independent_ok

\* state_res::check_state_dependent_auth_rules: its outcome is an input.
check_state_dependent_auth_rules(pdu) == pdu.dependent_ok

AuthSlots == {"create", "power_levels", "member"}

\* insert_auth_event over pdu.auth_events, then over the create event named
\* by the room id: the map `auth_events`, in which a later insert replaces
\* an earlier one of the same (type, state_key).  "-" stands for None.
auth_events_lookup(pdu, kn) ==
    [k \in AuthSlots |->
        LET found == {i \in 1 .. Len(pdu.auth_events) :
                         /\ pdu.auth_events[i] \in kn
                         /\ AuthKind(pdu.auth_events[i]) = k}
        IN  IF k = "create" /\ pdu.id_as_room_id /\ ~pdu.is_create /\ "C" \in kn
              THEN "C"
            ELSE IF found = {} THEN "-"
            ELSE pdu.auth_events[CHOOSE i \in found : \A j \in found : j <= i]]

\* Both rule sets evaluated for every event.
authorize_pdu_checks_both(pdu, kn) == << "independent", "dependent" >>

\* `independent.is_err() || dependent.is_err()`: the rule sets that
\* authorize_pdu evaluates, in their order.
authorize_pdu_checks(pdu, kn) ==
    IF ~check_state_independent_auth_rules(pdu, auth_events_by_event_id(pdu, kn))
    THEN << "independent" >>
    ELSE << "independent", "dependent" >>

\* Mutant: the result of the state-independent rules is not looked at.
authorize_pdu_dependent_only(pdu, kn) ==
    IF ~check_state_dependent_auth_rules(pdu)
    THEN ErrOf("Auth check failed")
    ELSE OkUnit

\* insert_auth_event: `state_key.clone().expect(..)` on an auth event that
\* is found and has no state key.
insert_auth_event_panics(pdu, kn) ==
    \E e \in Range(pdu.auth_events) : e \in kn /\ AuthKind(e) = "none"

authorize_pdu(pdu, kn) ==
    IF insert_auth_event_panics(pdu, kn)
    THEN Panicked("all auth events have state keys")
    ELSE IF \/ ~check_state_independent_auth_rules(pdu,
                                              auth_events_by_event_id(pdu, kn))
            \/ ~check_state_dependent_auth_rules(pdu)
    THEN ErrOf("Auth check failed")
    ELSE OkUnit

\* fetch_and_handle_outliers stores the events it obtained as outliers.
fetch_and_handle_outliers(kn, fetched) == kn \cup fetched

\* The states resolve_state can have returned for the event: nothing before
\* a create event, else the room's create event and what the room holds in
\* the other slots.
AuthStates ==
    {st \in [AuthSlots -> AuthEvents \cup {"-"}] :
        \A k \in AuthSlots : st[k] # "-" => AuthKind(st[k]) = k /\ st[k] # "D"}

ResolvedStates(pdu) ==
    IF pdu.is_create THEN {[k \in AuthSlots |-> "-"]}
    ELSE {st \in AuthStates : st["create"] = "C"}

NoPdu == [stage |-> "none"]

\* The pipeline always holds the room's create event.
AuthInit ==
    /\ known = {"C"}
    /\ ares = NoPdu

\* An event arrives.
ReceivePdu(pdu) ==
    /\ ares.stage = "none"
    /\ ares' = [stage |-> "received", pdu |-> pdu]
    /\ UNCHANGED known
    /\ UNCHANGED notAuthVars

\* fetch_dependencies; fetch_and_handle_outliers obtains the events
\* `fetched` among the cited ones that are not known, and stores them.
FetchDependencies(fetched) ==
    /\ ares.stage = "received"
    /\ fetched \subseteq Range(ares.pdu.auth_events) \ known
    /\ known' = fetch_and_handle_outliers(known, fetched)
    /\ ares' = [stage |-> "fetched", pdu |-> ares.pdu,
                fetch |-> fetch_dependencies(ares.pdu, known, fetched)]
    /\ UNCHANGED notAuthVars

\* authorize_pdu, which the pipeline runs when fetch_dependencies is Ok;
\* `state` is the state resolved for the event, which authorize_pdu is not
\* given.
AuthorizePdu(state) ==
    /\ ares.stage = "fetched"
    /\ ares.fetch.ok
    /\ state \in ResolvedStates(ares.pdu)
    /\ LET auth == authorize_pdu(ares.pdu, known)
       IN  IF auth \in {OkUnit, ErrOf("Auth check failed")}
           THEN ares' = [stage |-> "authorized", pdu |-> ares.pdu,
                         fetch |-> ares.fetch, state |-> state,
                         checks |-> authorize_pdu_checks(ares.pdu, known),
                         lookup |-> auth_events_lookup(ares.pdu, known),
                         auth |-> auth]
           ELSE ares' = [stage |-> "aborted", pdu |-> ares.pdu,
                         fetch |-> ares.fetch, state |-> state, auth |-> auth]
    /\ UNCHANGED known
    /\ UNCHANGED notAuthVars

\* The pipeline is done with the event: authorize_pdu has returned, or the
\* task that ran it has ended.
FinishPdu ==
    /\ ares.stage \in {"fetched", "authorized", "aborted"}
    /\ ares.stage = "fetched" => ~ares.fetch.ok
    /\ ares' = NoPdu
    /\ UNCHANGED known
    /\ UNCHANGED notAuthVars

AuthNext ==
    \/ \E pdu \in AuthPdus : ReceivePdu(pdu)
    \/ \E fetched \in SUBSET AuthEvents : FetchDependencies(fetched)
    \/ \E state \in AuthStates : AuthorizePdu(state)
    \/ FinishPdu

(***************************************************************************)
(* The per-room state mutex (service/admin/mod.rs).  Three tasks append    *)
(* to a timeline: handler() answers one admin message with one event in    *)
(* the admin room, make_user_admin() appends four events to the admin      *)
(* room, create_admin_room() appends eight events to the room it created.  *)
(* Each takes the room's mutex out of roomid_mutex_state, creating the     *)
(* entry when there is none, and holds its guard over its appends.         *)
(***************************************************************************)
MaxCalls == 2

Rooms == {"admin", "created"}

AdminTasks == {"handler", "make_user_admin", "create_admin_room"}

RoomOf(p) == IF p = "create_admin_room" THEN "created" ELSE "admin"

\* build_and_append_pdu calls each task makes under one guard.
Appends(p) ==
    CASE p = "handler" -> 1
      [] p = "make_user_admin" -> 4
      [] p = "create_admin_room" -> 8

\* roomid_mutex_state.write().await.entry(room).or_default()
entry_or_default(map, room) ==
    IF map[room] = "absent" THEN [map EXCEPT ![room] = "free"] ELSE map

\* send_create_room(..) makes the room and returns its id with its mutex.
send_create_room(map, room) == entry_or_default(map, room)

LockInit ==
    /\ roomid_mutex_state = [r \in Rooms |-> "absent"]
    /\ adminPc = [p \in AdminTasks |-> "idle"]
    /\ appendsLeft = [p \in AdminTasks |-> 0]
    /\ adminCalls = [p \in AdminTasks |-> 0]
    /\ timelineLen = [r \in Rooms |-> 0]

\* handler() receives an event and builds the answer; make_user_admin() or
\* create_admin_room() is called.
AdminCall(p) ==
    /\ adminPc[p] = "idle"
    /\ adminCalls[p] < MaxCalls
    /\ adminCalls' = [adminCalls EXCEPT ![p] = @ + 1]
    /\ adminPc' = [adminPc EXCEPT ![p] = "entry"]
    /\ UNCHANGED <<roomid_mutex_state, appendsLeft, timelineLen>>
    /\ UNCHANGED notLockVars

\* The task clones the room's mutex out of the map (for create_admin_room,
\* send_create_room hands it over); the map's write guard is a temporary
\* and is gone before the task waits for the mutex.
GetMutex(p) ==
    /\ adminPc[p] = "entry"
    /\ roomid_mutex_state' =
          IF p = "create_admin_room"
          THEN send_create_room(roomid_mutex_state, RoomOf(p))
          ELSE entry_or_default(roomid_mutex_state, RoomOf(p))
    /\ adminPc' = [adminPc EXCEPT ![p] = "lock"]
    /\ UNCHANGED <<appendsLeft, adminCalls, timelineLen>>
    /\ UNCHANGED notLockVars

\* mutex_state.lock().await taking the mutex whoever holds it.
LockNoWait(p) ==
    /\ adminPc[p] = "lock"
    /\ roomid_mutex_state' = [roomid_mutex_state EXCEPT ![RoomOf(p)] = p]
    /\ adminPc' = [adminPc EXCEPT ![p] = "held"]
    /\ appendsLeft' = [appendsLeft EXCEPT ![p] = Appends(p)]
    /\ UNCHANGED <<adminCalls, timelineLen>>
    /\ UNCHANGED notLockVars

\* mutex_state.lock().await: the task goes on when the mutex is free.
Lock(p) ==
    /\ adminPc[p] = "lock"
    /\ roomid_mutex_state[RoomOf(p)] = "free"
    /\ roomid_mutex_state' = [roomid_mutex_state EXCEPT ![RoomOf(p)] = p]
    /\ adminPc' = [adminPc EXCEPT ![p] = "held"]
    /\ appendsLeft' = [appendsLeft EXCEPT ![p] = Appends(p)]
    /\ UNCHANGED <<adminCalls, timelineLen>>
    /\ UNCHANGED notLockVars

\* build_and_append_pdu(.., &room_id, &state_lock) is entered.
AppendStart(p) ==
    /\ adminPc[p] = "held"
    /\ appendsLeft[p] > 0
    /\ adminPc' = [adminPc EXCEPT ![p] = "append"]
    /\ UNCHANGED <<roomid_mutex_state, appendsLeft, adminCalls, timelineLen>>
    /\ UNCHANGED notLockVars

\* build_and_append_pdu returns Ok: the event is on the room's timeline.
AppendEnd(p) ==
    /\ adminPc[p] = "append"
    /\ timelineLen' = [timelineLen EXCEPT ![RoomOf(p)] = @ + 1]
    /\ appendsLeft' = [appendsLeft EXCEPT ![p] = @ - 1]
    /\ adminPc' = [adminPc EXCEPT ![p] = "held"]
    /\ UNCHANGED <<roomid_mutex_state, adminCalls>>
    /\ UNCHANGED notLockVars

\* build_and_append_pdu returns Err: `?` leaves make_user_admin and
\* create_admin_room, `.unwrap()` panics in handler() and ends its task; the
\* guard is dropped on both ways out.
AppendFail(p) ==
    /\ adminPc[p] = "append"
    /\ roomid_mutex_state' = [roomid_mutex_state EXCEPT ![RoomOf(p)] = "free"]
    /\ appendsLeft' = [appendsLeft EXCEPT ![p] = 0]
    /\ adminPc' = [adminPc EXCEPT ![p] = IF p = "handler" THEN "panicked"
                                          ELSE "idle"]
    /\ UNCHANGED <<adminCalls, timelineLen>>
    /\ UNCHANGED notLockVars

\* The guard goes out of scope after the last append.
Unlock(p) ==
    /\ adminPc[p] = "held"
    /\ appendsLeft[p] = 0
    /\ roomid_mutex_state' = [roomid_mutex_state EXCEPT ![RoomOf(p)] = "free"]
    /\ adminPc' = [adminPc EXCEPT ![p] = "idle"]
    /\ UNCHANGED <<appendsLeft, adminCalls, timelineLen>>
    /\ UNCHANGED notLockVars

LockNext ==
    \/ \E p \in AdminTasks : AdminCall(p)
    \/ \E p \in AdminTasks : GetMutex(p)
    \/ \E p \in AdminTasks : Lock(p)
    \/ \E p \in AdminTasks : AppendStart(p)
    \/ \E p \in AdminTasks : AppendEnd(p)
    \/ \E p \in AdminTasks : AppendFail(p)
    \/ \E p \in AdminTasks : Unlock(p)

(***************************************************************************)
(* The process-wide mutex around state_res::resolve (stateres.rs, the      *)
(* branch for an event with several parents).  `lock` holds what           *)
(* stateres_mutex.lock() returned, the guard or the poison error carrying  *)
(* the guard, until drop(lock); a panic inside resolve drops it while      *)
(* unwinding and poisons the mutex.                                        *)
(***************************************************************************)
Resolvers == {"r1", "r2", "r3"}

Unlocked(poisoned) == [holder |-> "free", poisoned |-> poisoned]

LockedBy(t, poisoned) == [holder |-> t, poisoned |-> poisoned]

ResolveReturns == {"ok", "err"}

StateresInit ==
    /\ stateres_mutex = Unlocked(FALSE)
    /\ resolverPc = [t \in Resolvers |-> "idle"]
    /\ resolverCalls = [t \in Resolvers |-> 0]

\* resolve_state enters its merge branch and builds the fork states and the
\* auth chain sets, suspending on the store.
ForkStatesStart(t) ==
    /\ resolverPc[t] = "idle"
    /\ resolverCalls[t] < MaxCalls
    /\ resolverCalls' = [resolverCalls EXCEPT ![t] = @ + 1]
    /\ resolverPc' = [resolverPc EXCEPT ![t] = "forks"]
    /\ UNCHANGED stateres_mutex
    /\ UNCHANGED notMutexVars

\* state_full_ids or get_auth_chain fails: `?` returns before the mutex.
ForkStatesFail(t) ==
    /\ resolverPc[t] = "forks"
    /\ resolverPc' = [resolverPc EXCEPT ![t] = "idle"]
    /\ UNCHANGED <<stateres_mutex, resolverCalls>>
    /\ UNCHANGED notMutexVars

\* stateres_mutex.lock() returning at once, whoever holds the mutex.
StateresLockNoWait(t) ==
    /\ resolverPc[t] = "forks"
    /\ stateres_mutex' = LockedBy(t, stateres_mutex.poisoned)
    /\ resolverPc' = [resolverPc EXCEPT ![t] = "locked"]
    /\ UNCHANGED resolverCalls
    /\ UNCHANGED notMutexVars

\* let lock = stateres_mutex.lock(): the thread blocks until the mutex is
\* free; a poisoned mutex is handed over all the same.
StateresLock(t) ==
    /\ resolverPc[t] = "forks"
    /\ stateres_mutex.holder = "free"
    /\ stateres_mutex' = LockedBy(t, stateres_mutex.poisoned)
    /\ resolverPc' = [resolverPc EXCEPT ![t] = "locked"]
    /\ UNCHANGED resolverCalls
    /\ UNCHANGED notMutexVars

\* state_res::resolve(..) is entered.
ResolveCall(t) ==
    /\ resolverPc[t] = "locked"
    /\ resolverPc' = [resolverPc EXCEPT ![t] = "resolve"]
    /\ UNCHANGED <<stateres_mutex, resolverCalls>>
    /\ UNCHANGED notMutexVars

\* state_res::resolve(..) returns Ok or Err.
ResolveReturn(t, r) ==
    /\ resolverPc[t] = "resolve"
    /\ resolverPc' = [resolverPc EXCEPT ![t] = r]
    /\ UNCHANGED <<stateres_mutex, resolverCalls>>
    /\ UNCHANGED notMutexVars

\* state_res::resolve(..) panics (a lookup closure or `expect`): the task
\* ends, the guard is dropped by the unwinding.
ResolvePanic(t) ==
    /\ resolverPc[t] = "resolve"
    /\ stateres_mutex' = Unlocked(TRUE)
    /\ resolverPc' = [resolverPc EXCEPT ![t] = "panicked"]
    /\ UNCHANGED resolverCalls
    /\ UNCHANGED notMutexVars

\* drop(lock), then the result is mapped and resolve_state goes on.
DropLock(t) ==
    /\ resolverPc[t] \in ResolveReturns
    /\ stateres_mutex' = Unlocked(stateres_mutex.poisoned)
    /\ resolverPc' = [resolverPc EXCEPT ![t] = "idle"]
    /\ UNCHANGED resolverCalls
    /\ UNCHANGED notMutexVars

StateresNext ==
    \/ \E t \in Resolvers : ForkStatesStart(t)
    \/ \E t \in Resolvers : ForkStatesFail(t)
    \/ \E t \in Resolvers : StateresLock(t)
    \/ \E t \in Resolvers : ResolveCall(t)
    \/ \E t \in Resolvers, r \in ResolveReturns : ResolveReturn(t, r)
    \/ \E t \in Resolvers : ResolvePanic(t)
    \/ \E t \in Resolvers : DropLock(t)

(***************************************************************************)
(* A component that takes no step keeps its initial state.                 *)
(***************************************************************************)
SendIdle ==
    /\ now = 0
    /\ nextTick = 0
    /\ hpc = "start"
    /\ channel = << >>
    /\ status = [d \in OutgoingKind |-> NoStatus]
    /\ futures = EmptyBag
    /\ permits = MaxConcurrentRequests
    /\ fedPc = [c \in Callers |-> "idle"]
    /\ delivered = {}
    /\ folded = [d \in OutgoingKind |-> {}]
    /\ NoHistory
    /\ dbQueued = [k \in OutgoingKind |-> {}]
    /\ dbActive = [k \in OutgoingKind |-> {}]
    /\ nextItem = 1

(***************************************************************************)
(* find_ldap_user (service/ldap.rs) with the default configuration         *)
(* (config/ldap.rs): user_filter "(uid=%u)" and the attribute mapping      *)
(* localpart -> uid, displayname -> cn, email -> mail.  A directory entry  *)
(* has a dn and, for each attribute, its first value or "-" when it has    *)
(* none.  A filter is the sequence of its tokens; "*" as the value of an   *)
(* equality is the presence filter of the directory.                       *)
(***************************************************************************)
MaxEntries == 2

Dns == 1 .. MaxEntries

LdapNames == {"alice", "bob"}

Usernames == LdapNames \cup {"carol", "*"}

LdapEntries ==
    [dn : Dns, uid : LdapNames, cn : {"-", "Name"}, mail : {"-", "addr"}]

default_user_filter == << "(", "uid", "=", "%u", ")" >>

default_attribute_mapping ==
    [localpart |-> "uid", displayname |-> "cn", email |-> "mail"]

\* user_filter.replace("%u", username)
Filter(user_filter, username) ==
    [i \in 1 .. Len(user_filter) |->
        IF user_filter[i] = "%u" THEN username ELSE user_filter[i]]

\* What the directory answers to a search with the filter (attr=value).
LdapSearch(dir, filter) ==
    {e \in dir : IF filter[4] = "*" THEN e[filter[2]] # "-"
                 ELSE e[filter[2]] = filter[4]}

LdapUser(dn, localpart, displayname, email) ==
    [ok |-> TRUE, error |-> "-",
     user |-> [dn |-> dn, localpart |-> localpart,
               displayname |-> displayname, email |-> email]]

\* LdapConn::new, simple_bind, search and success can each fail.
LdapConnOutcomes == {"ok", "connect", "bind", "search"}

find_ldap_user(username, dir, conn) ==
    LET filter == Filter(default_user_filter, username)
        rs == LdapSearch(dir, filter)
        m == default_attribute_mapping
    IN  IF conn # "ok" THEN ErrOf("ldap")
        ELSE IF Cardinality(rs) # 1
          THEN ErrOf("User not found or multiple users found")
        ELSE LET entry == CHOOSE e \in rs : TRUE
             IN  IF entry[m.localpart] = "-"
                   THEN ErrOf("LDAP attribute for localpart not found")
                 ELSE IF entry[m.displayname] = "-"
                   THEN ErrOf("LDAP attribute for displayname not found")
                 ELSE IF entry[m.email] = "-"
                   THEN ErrOf("LDAP attribute for email not found")
                 ELSE LdapUser(entry.dn, entry[m.localpart],
                               entry[m.displayname], entry[m.email])

NoLookup == [called |-> FALSE]

LdapInit ==
    /\ ldapDir = {}
    /\ ldapRes = NoLookup

\* The directory's administrators add and remove entries.
AddEntry(e) ==
    /\ \A o \in ldapDir : o.dn # e.dn
    /\ ldapDir' = ldapDir \cup {e}
    /\ UNCHANGED ldapRes
    /\ UNCHANGED notLdapVars

RemoveEntry(e) ==
    /\ e \in ldapDir
    /\ ldapDir' = ldapDir \ {e}
    /\ UNCHANGED ldapRes
    /\ UNCHANGED notLdapVars

FindLdapUser(username, conn) ==
    /\ ~ldapRes.called
    /\ ldapRes' = [called |-> TRUE, username |-> username, conn |-> conn,
                   rs |-> LdapSearch(ldapDir,
                                     Filter(default_user_filter, username)),
                   result |-> find_ldap_user(username, ldapDir, conn)]
    /\ UNCHANGED ldapDir
    /\ UNCHANGED notLdapVars

\* The caller is done with the result.
LdapReturn ==
    /\ ldapRes.called
    /\ ldapRes' = NoLookup
    /\ UNCHANGED ldapDir
    /\ UNCHANGED notLdapVars

LdapNext ==
    \/ \E e \in LdapEntries : AddEntry(e)
    \/ \E e \in LdapEntries : RemoveEntry(e)
    \/ \E username \in Usernames, conn \in LdapConnOutcomes :
          FindLdapUser(username, conn)
    \/ LdapReturn

(***************************************************************************)
(* Specifications: Spec is the sending handler, SpecHistory the handler    *)
(* with the history of its results, SpecRetry the handler under fair       *)
(* scheduling, SpecBacklog the handler                                     *)
(* started on a long backlog, SpecValidate, SpecResolve and SpecAuth the   *)
(* steps of the inbound pipeline, SpecBackoff the backoff computation,     *)
(* SpecLock the tasks appending under the room mutex and SpecStateres the  *)
(* tasks running state_res::resolve, SpecLdap the directory lookup.        *)
(***************************************************************************)
Idle == LockInit /\ StateresInit /\ LdapInit

Init ==
    SendInit /\ NoHistory /\ ValInit /\ ResInit /\ BackoffInit /\ AuthInit
       /\ Idle


Next == SendNext

Spec == Init /\ [][Next]_vars

\* The sending handler with the history of the results it took.
InitHistory ==
    SendInit /\ History /\ ValInit /\ ResInit /\ BackoffInit /\ AuthInit
       /\ Idle

SpecHistory == InitHistory /\ [][Next]_vars

\* Scheduling of the requests.  An outbound request that is out returns:
\* the peer answers or the request timeout of the federation client ends it.
OutboundRequestsReturn == WF_vars(FutRespond)

\* tokio::time::timeout(2 min) ends a request of send_federation_request.
FedRequestsReturn == \A c \in Callers : WF_vars(FedReturn(c))

\* A caller waiting in acquire() gets a permit when permits keep coming
\* back: the semaphore queues its waiters.
PermitsGranted == \A c \in Callers : SF_vars(FedAcquire(c))

\* The behaviours under fair scheduling start with the two entries of the
\* previous run marked active.
InitFair == Init /\ \A d \in OutgoingKind : dbQueued[d] = {}

SpecFair ==
    /\ InitFair
    /\ [][Next]_vars
    /\ OutboundRequestsReturn
    /\ FedRequestsReturn
    /\ PermitsGranted

\* Scheduling of the handler: the select! loop takes a branch that is
\* ready, time passes and the interval keeps firing, a future that waits
\* for a permit gets one when permits keep coming back.
HandlerRuns ==
    /\ WF_vars(HandlerStart)
    /\ WF_vars(HandleResponse)
    /\ WF_vars(Receive)
    /\ WF_vars(Tick)
    /\ WF_vars(AdvanceTime)
    /\ SF_vars(FutAcquire)

SpecRetry ==
    /\ InitFair
    /\ [][Next]_vars
    /\ HandlerRuns
    /\ OutboundRequestsReturn
    /\ FedRequestsReturn

InitLdap ==
    SendIdle /\ ValInit /\ ResInit /\ BackoffInit /\ AuthInit /\ Idle

SpecLdap == InitLdap /\ [][LdapNext]_vars

InitBacklog ==
    SendInitBacklog /\ ValInit /\ ResInit /\ BackoffInit /\ AuthInit /\ Idle

SpecBacklog == InitBacklog /\ [][Next]_vars

InitValidate ==
    SendIdle /\ ValInit /\ ResInit /\ BackoffInit /\ AuthInit /\ Idle

SpecValidate == InitValidate /\ [][ValNext]_vars

InitResolve ==
    SendIdle /\ ValInit /\ ResInit /\ BackoffInit /\ AuthInit /\ Idle

InitBackoff ==
    SendIdle /\ ValInit /\ ResInit /\ BackoffInit /\ AuthInit /\ Idle

SpecBackoff == InitBackoff /\ [][BackoffNext]_vars

InitAuth ==
    SendIdle /\ ValInit /\ ResInit /\ BackoffInit /\ AuthInit /\ Idle

SpecAuth == InitAuth /\ [][AuthNext]_vars

SpecResolve == InitResolve /\ [][ResNext]_vars

InitLock ==
    SendIdle /\ ValInit /\ ResInit /\ BackoffInit /\ AuthInit /\ Idle

SpecLock == InitLock /\ [][LockNext]_vars

InitStateres ==
    SendIdle /\ ValInit /\ ResInit /\ BackoffInit /\ AuthInit /\ Idle

SpecStateres == InitStateres /\ [][StateresNext]_vars

(***************************************************************************)
(* Properties of the sending handler.                                      *)
(***************************************************************************)

\* A transaction to d is issued in this step: a handle_events future for d
\* at its first position is pushed on `futures`.
Issued(d) ==
    \E g \in BagToSet(futures') :
        /\ g.kind = d
        /\ g.idx = 1
        /\ g.pc = "wait" \/ (g.pc = "ok" /\ g.events = << >>)
        /\ CopiesIn(g, futures') > CopiesIn(g, futures)

\* C1: for every destination, at most one outbound transaction is in flight
\* in every reachable state, whatever the status an enqueue meets.
C1_AtMostOneInFlight ==
    \A d \in OutgoingKind : InFlightOf(futures, d) <= 1

\* C2: while a destination is Failed(n, t) and less than min(30 s * n^2, 24 h)
\* have elapsed since t, no transaction is issued to it, neither by an
\* enqueue nor by the tick.
C2_NoIssueDuringBackoff ==
    [][\A d \in OutgoingKind :
          (/\ status[d].tag = "Failed"
           /\ now - status[d].time < MinElapsedDuration(status[d].tries))
          => ~Issued(d)]_vars

\* C3: every item ever written to the durable queue is still in it (queued
\* or active) unless a request that carried it was answered with success.
C3_NoDataLoss ==
    \A i \in 1 .. (nextItem - 1) :
        \/ i \in delivered
        \/ \E d \in OutgoingKind : i \in dbQueued[d] \cup dbActive[d]

\* C4: when a transaction to d succeeds while items were folded into
\* Running(events), exactly one follow-up transaction is issued and its
\* batch holds each of those items exactly once.
C4_FollowUpExactlyOnce ==
    [][\A f \in BagToSet(futures) :
          (/\ hpc = "loop"
           /\ f.pc = "ok"
           /\ status[f.kind].tag = "Running"
           /\ status[f.kind].events # << >>
           /\ HandleOk(f)
           /\ UNCHANGED <<now, nextTick, hpc, channel, permits, fedPc,
                          nextItem, delivered>>)
          => \E g \in BagToSet(futures') :
                /\ g = handle_events(f.kind, g.events)
                /\ CopiesIn(g, futures') = CopiesIn(g, futures) + 1
                /\ \A x \in Range(status[f.kind].events) :
                       Count(g.events, x) = 1]_vars

\* C10: the requests in flight (permit held) never exceed
\* max_concurrent_requests, and every taken permit is given back: the
\* permits held are exactly those of the requests in flight.
HeldFutures ==
    LET S == {f \in BagToSet(futures) : f.pc = "held"}
    IN BagCardinality([f \in S |-> futures[f]])

InFlightRequests ==
    HeldFutures + Cardinality({c \in Callers : fedPc[c] = "held"})

C10_BoundedRequests ==
    /\ InFlightRequests <= MaxConcurrentRequests
    /\ permits = MaxConcurrentRequests - InFlightRequests

\* All permits are taken, one of them by send_federation_request, while a
\* transaction waits for one; an earlier transaction has ended with an error.
C10_Witness ==
    /\ permits = 0
    /\ \E c \in Callers : fedPc[c] = "held"
    /\ \E f \in BagToSet(futures) : f.pc = "wait"
    /\ \E d \in OutgoingKind : status[d].tag = "Failed"

\* The handler takes the item `key` for destination d from the channel in
\* this step.
ReceiveOf(d, key) ==
    /\ hpc = "loop"
    /\ channel # << >>
    /\ Head(channel) = << d, key >>
    /\ channel' = Tail(channel)

\* g is the future of a transaction to d that is issued in this step.
IssuedBatch(d, g) ==
    /\ g \in BagToSet(futures')
    /\ g.kind = d
    /\ g.idx = 1
    /\ g.pc = "wait" \/ (g.pc = "ok" /\ g.events = << >>)
    /\ CopiesIn(g, futures') > CopiesIn(g, futures)

\* The handler takes the success of future f in this step.
SuccessOf(f) ==
    /\ hpc = "loop"
    /\ f \in BagToSet(futures)
    /\ f.pc = "ok"
    /\ HandleOk(f)
    /\ UNCHANGED <<now, nextTick, hpc, channel, permits, fedPc, nextItem,
                   delivered>>

\* The handler takes the error of future f in this step.
FailureOf(f) ==
    /\ hpc = "loop"
    /\ f \in BagToSet(futures)
    /\ f.pc \in {"err", "noreg"}
    /\ HandleErr(f)
    /\ UNCHANGED <<now, nextTick, hpc, channel, permits, fedPc, nextItem,
                   delivered>>

InBackoff(d) ==
    /\ status[d].tag = "Failed"
    /\ now - status[d].time < MinElapsedDuration(status[d].tries)

\* C17: an item received for a destination without status entry makes the
\* entry Running and starts exactly one transaction, which contains the
\* item; an item received for a Running destination starts no transaction,
\* and every transaction issued to a destination contains the items that
\* were received for it while it was Running and have been in no batch yet.
C17_EnqueueIdleRunning ==
    [][\A d \in OutgoingKind :
          /\ \A key \in Items :
                (ReceiveOf(d, key) /\ status[d].tag = "None")
                   => /\ status'[d].tag = "Running"
                      /\ \E g \in BagToSet(futures') :
                            /\ g.kind = d
                            /\ key \in Range(g.events)
                            /\ futures' = Push1(futures, g)
          /\ \A key \in Items :
                (ReceiveOf(d, key) /\ status[d].tag = "Running")
                   => futures' = futures
          /\ \A g \in BagToSet(futures') :
                IssuedBatch(d, g) => folded[d] \subseteq Range(g.events)]_vars

\* C18: when the handler takes the success of a transaction to d, the items
\* removed from the durable queue are exactly the items the transaction
\* delivered; if items of d remain in the queue a transaction is issued in
\* the same step and d is Running, otherwise d has no status entry.
C18_SuccessRemovesDelivered ==
    [][\A f \in BagToSet(futures) :
          SuccessOf(f) =>
             LET d == f.kind
                 before == dbQueued[d] \cup dbActive[d]
                 after == dbQueued'[d] \cup dbActive'[d]
             IN  /\ before \ after = DurableItems(f.events) \cap delivered
                 /\ IF after # {}
                    THEN status'[d].tag = "Running" /\ Issued(d)
                    ELSE status'[d] = NoStatus]_vars

\* C19: an item received for a destination that is Failed(n, t) with
\* unexpired backoff starts no transaction and leaves the status entry and
\* the durable queue as they are; a queued item leaves the queue only into the batch of a
\* transaction issued in the same step, and the success of a retry issues a
\* transaction that carries the queued items (the first 30 of them).
C19_EnqueueWhileFailed ==
    [][\A d \in OutgoingKind :
          /\ \A key \in Items :
                (ReceiveOf(d, key) /\ InBackoff(d))
                   => /\ futures' = futures
                      /\ status'[d] = status[d]
                      /\ dbQueued' = dbQueued
                      /\ dbActive' = dbActive
          /\ \A i \in dbQueued[d] \ dbQueued'[d] :
                \E g \in BagToSet(futures') :
                    IssuedBatch(d, g) /\ i \in Range(g.events)
          /\ \A f \in BagToSet(futures) :
                (/\ f.kind = d
                 /\ status[d].tag = "Retrying"
                 /\ dbQueued[d] # {}
                 /\ SuccessOf(f))
                   => \E g \in BagToSet(futures') :
                         /\ IssuedBatch(d, g)
                         /\ Range(Take(SortedSeq(dbQueued[d]), BatchLimit))
                               \subseteq Range(g.events)]_vars

\* An item that was enqueued (not left by a previous run) and received while
\* its destination was Failed is waiting in the queue; the destination is
\* still in backoff.
C19_Witness ==
    \E d \in OutgoingKind :
        /\ InBackoff(d)
        /\ channel = << >>
        /\ \E i \in dbQueued[d] : i \notin LeftoverItems /\ i \notin folded[d]

\* C20: a transaction that ends because the appservice registration (or the
\* pusher) is missing does not put its destination into the backoff cycle:
\* the status entry does not become Failed.
C20_MissingRegistrationPermanent ==
    [][\A f \in BagToSet(futures) :
          (f.pc = "noreg" /\ FailureOf(f))
             => status'[f.kind].tag \notin {"Failed", "Retrying"}]_vars

\* C13: every call of send_federation_request returns, also when it has to
\* wait for a permit that outbound transactions hold.
C13_FedCallReturns ==
    \A c \in Callers : (fedPc[c] # "idle") ~> (fedPc[c] = "idle")

\* A call of send_federation_request waits for a permit while an outbound
\* transaction holds the last one.
C13_Witness ==
    /\ permits = 0
    /\ \E c \in Callers : fedPc[c] = "wait"
    /\ \E f \in BagToSet(futures) : f.pc = "held"

\* The durable queue items a batch carries.
DurableCount(events) ==
    Cardinality({i \in 1 .. Len(events) : events[i] # EphemeralEdu})

\* C29: every transaction in flight carries at most 30 durable queue items.
C29_BatchLimit ==
    \A f \in BagToSet(futures) : DurableCount(f.events) <= BatchLimit

\* C30: a destination with a transaction in flight is Running or Retrying,
\* and a status entry is removed only by the success of a transaction that
\* leaves nothing pending for the destination.
C30_StatusReflectsInFlight ==
    [][\A d \in OutgoingKind :
          /\ InFlightOf(futures', d) > 0 =>
                status'[d].tag \in {"Running", "Retrying"}
          /\ (status[d].tag # "None" /\ status'[d].tag = "None") =>
                /\ \E f \in BagToSet(futures) : f.kind = d /\ SuccessOf(f)
                /\ InFlightOf(futures', d) = 0
                /\ dbQueued[d] = {}]_vars

\* C31: the handler takes the error of a transaction only for a destination
\* whose status is Running or Retrying, never for one that is Failed or has
\* no entry.
C31_FailureOnlyWhileRunning ==
    [][\A f \in BagToSet(futures) :
          FailureOf(f) => status[f.kind].tag \in {"Running", "Retrying"}]_vars

\* The number of handle_events futures for d on `futures`, finished ones
\* that the handler has not taken yet included.
FuturesOf(fs, d) ==
    BagCardinality([g \in {h \in BagToSet(fs) : h.kind = d} |-> fs[g]])

\* Destination d goes from Failed to Retrying in this step.
RetryOf(d) == status[d].tag = "Failed" /\ status'[d].tag = "Retrying"

\* C32: a step that takes a destination from Failed(n, t) to Retrying comes
\* after the backoff, keeps the count n and issues exactly one transaction;
\* its batch is every item marked active for the destination, in store
\* order, followed by the newly received items, which are marked active in
\* the same step, and it holds every stored item of the failed transaction.
C32_RetryBatch ==
    [][\A d \in OutgoingKind :
          RetryOf(d) =>
             LET active == active_requests_for(dbActive, d)
                 new_events == IF channel' # channel
                               THEN << Head(channel)[2] >> ELSE << >>
             IN  /\ ~InBackoff(d)
                 /\ status'[d] = Retrying(status[d].tries)
                 /\ FuturesOf(futures', d) = FuturesOf(futures, d) + 1
                 /\ channel' # channel => Head(channel)[1] = d
                 /\ dbActive'[d] = dbActive[d] \cup Range(new_events)
                 /\ \E g \in BagToSet(futures') :
                       /\ IssuedBatch(d, g)
                       /\ g.events = active \o new_events
                       /\ lastDone[d].outcome = "err"
                       /\ DurableItems(lastDone[d].events) \subseteq
                             Range(g.events)]_vars

\* C33: the failure count counts consecutive failures: a failure taken while
\* the destination is Running sets Failed(1, now), one taken while it is
\* Retrying(n) sets Failed(n + 1, now), and the first failure taken after a
\* success of a transaction to the destination sets Failed(1, now).
C33_ConsecutiveFailures ==
    [][\A f \in BagToSet(futures) :
          FailureOf(f) =>
             LET d == f.kind
             IN  /\ status[d].tag = "Running" => status'[d] = Failed(1, now)
                 /\ status[d].tag = "Retrying" =>
                       status'[d] = Failed(status[d].tries + 1, now)
                 /\ lastDone[d].outcome = "ok" =>
                       status'[d] = Failed(1, now)]_vars

\* C34: the start-up step of the handler puts every destination that has
\* items marked active in Running and issues exactly one transaction for it,
\* whose batch holds at most 30 of those items; a destination without active
\* items gets no transaction.
C34_StartupRecovery ==
    [][(hpc = "start" /\ hpc' = "loop") =>
          \A d \in OutgoingKind :
             IF dbActive[d] # {}
             THEN /\ status'[d] = Running(<< >>)
                  /\ FuturesOf(futures', d) = 1
                  /\ \E g \in BagToSet(futures') :
                        /\ IssuedBatch(d, g)
                        /\ Range(g.events) \subseteq dbActive[d]
                        /\ Len(g.events) <= BatchLimit
             ELSE /\ FuturesOf(futures', d) = 0
                  /\ status'[d] = NoStatus]_vars

\* Time has reached the end of the modelled interval while d is Failed and
\* its retry needs more time: the backoff has not elapsed or no tick is due.
WaitsForTime(d) ==
    /\ status[d].tag = "Failed"
    /\ InBackoff(d) \/ now < nextTick
    /\ now + BackoffBase > MaxTime

\* C37: when the handler, the clock and its interval keep running, a Failed
\* destination is retried (it becomes Retrying) unless its retry still waits
\* for time at the end of the modelled interval, and every item in the
\* durable queue is eventually delivered unless it is still stored for a
\* destination whose retry waits for time.
C37_RetryLiveness ==
    /\ \A d \in OutgoingKind :
          (status[d].tag = "Failed")
             ~> (status[d].tag = "Retrying" \/ WaitsForTime(d))
    /\ \A d \in OutgoingKind, i \in Items :
          (i \in dbQueued[d] \cup dbActive[d])
             ~> \/ i \in delivered
                \/ i \in dbQueued[d] \cup dbActive[d] /\ WaitsForTime(d)

\* C39: the retry that the tick issues for a destination whose transaction
\* failed, which adds no new item, sends the item list of the failed
\* transaction and with it the same transaction id.
C39_RetrySameTransactionId ==
    [][\A d \in {"Normal", "Appservice"} :
          (RetryOf(d) /\ channel' = channel /\ lastDone[d].outcome = "err") =>
             \E g \in BagToSet(futures') :
                /\ IssuedBatch(d, g)
                /\ g.events = lastDone[d].events
                /\ transaction_id(g.events) =
                      transaction_id(lastDone[d].events)]_vars

(***************************************************************************)
(* Properties of the backoff computation (under SpecBackoff).              *)
(***************************************************************************)

\* C16: for every failure count n a u32 holds, the wait is computed without
\* overflow, it is min(30 s * n^2, 24 h), the same on the tick path and on
\* the enqueue path, at most 24 h, and not larger than the wait for n + 1.
C16_BackoffValue ==
    backoff.computed =>
       LET n == backoff.tries
           w == backoff.tick
           next == tick_min_elapsed_duration(Trim(BigAdd(n, << 1 >>, 0)))
       IN  /\ ~w.panic
           /\ ~backoff.select.panic
           /\ backoff.select = w
           /\ ~BigLess(ToBig(BackoffCap), w.secs)
           /\ \A k \in 0 .. MaxTries :
                 n = ToBig(k) => w.secs = ToBig(Min(BackoffBase * k * k, BackoffCap))
           /\ n # U32Max => (~next.panic /\ ~BigLess(next.secs, w.secs))

(***************************************************************************)
(* Properties of validate_pdu (under SpecValidate).                        *)
(***************************************************************************)

\* This step is a run of validate_pdu.
ValidateStep == ~vres.validated /\ vres'.validated

NonRedacted(entry) == entry.known /\ entry.form.payload # "redacted"

HashMismatch(pdu) == pdu.payload = "tampered"

WellFormed(pdu) == pdu.shape = "ok" /\ (HashMismatch(pdu) => pdu.redactable)

\* C6: an event with a valid signature and a mismatching content hash is
\* accepted only in redacted form and only if no event with its id is
\* stored; so a stored non-redacted event is never replaced by a redacted
\* form of the same id.
C6_RedactionSafety ==
    [][/\ (ValidateStep /\ HashMismatch(vres'.pdu) /\ vres'.result.ok)
            => /\ vres'.result.value = redact(ParseContent(vres'.pdu))
               /\ ~store[vres'.pdu.event_id].known
       /\ \A e \in EventIds :
             NonRedacted(store[e]) => NonRedacted(store'[e])]_vars

\* A non-redacted event is stored, and a redacted relabeling of its id has
\* just been rejected.
C6_Witness ==
    /\ vres.validated
    /\ HashMismatch(vres.pdu)
    /\ vres.pdu.sig
    /\ NonRedacted(store[vres.pdu.event_id])
    /\ vres.result = Err("Event was redacted and we already knew about it")

\* C7: the outcomes of validate_pdu are exactly: malformed -> protocol
\* error; signature not verified -> rejected; signature and hash valid ->
\* the event without its unsigned field; signature valid and hash
\* mismatching -> the redacted form, or rejected when the id is already
\* known as non-redacted.
SignatureVerifies(pdu, keys) == pdu.sig /\ pdu.origin \in keys

C7_Outcomes ==
    [][ValidateStep =>
         LET pdu == vres'.pdu
             r == vres'.result
         IN  /\ pdu.shape = "bad_format" => r = Err("Received Invalid PDU")
             /\ ~WellFormed(pdu) => ~r.ok
             /\ ~SignatureVerifies(pdu, keyCache') => ~r.ok
             /\ (WellFormed(pdu) /\ SignatureVerifies(pdu, keyCache'))
                   => IF ~HashMismatch(pdu)
                      THEN r = Ok(RemoveUnsigned(ParseContent(pdu)))
                      ELSE IF NonRedacted(store[pdu.event_id])
                           THEN ~r.ok
                           ELSE r = Ok(redact(ParseContent(pdu)))]_vars

\* C8: validating again the bytes of an event that was accepted and stored
\* yields the canonical form of the first validation.
C8_Idempotence ==
    [][ValidateStep =>
         LET e == vres'.pdu.event_id
         IN  (store[e].known /\ store[e].bytes = vres'.pdu)
                => vres'.result = Ok(store[e].form)]_vars

\* C9: validate_pdu changes neither the stored events nor the room state,
\* whatever its outcome; it may only add to the signing-key cache.
C9_ValidateFrame ==
    [][ValidateStep =>
         /\ store' = store
         /\ roomState' = roomState
         /\ keyCache \subseteq keyCache']_vars

\* validate_pdu has run on a store and a room state that are not empty, has
\* fetched the keys of the origin and has accepted the event.
C9_Witness ==
    /\ vres.validated
    /\ vres.result.ok
    /\ vres.pdu.origin \in keyCache
    /\ roomState # "none"
    /\ \E e \in EventIds : e # vres.pdu.event_id /\ store[e].known

\* C21: the form validate_pdu returns never holds an unsigned field, and
\* the outcome of the checks is the same for the event with and without its
\* unsigned field.
C21_UnsignedStripped ==
    [][ValidateStep =>
         LET pdu == vres'.pdu
             other == [pdu EXCEPT !.unsigned = ~pdu.unsigned]
         IN  /\ vres'.result.ok => ~vres'.result.value.unsigned
             /\ validate_pdu(other, store, keyCache') = vres'.result]_vars

\* An event that came with an unsigned field has been accepted.
C21_Witness ==
    /\ vres.validated
    /\ vres.pdu.unsigned
    /\ vres.result.ok
    /\ ~vres.result.value.unsigned

(***************************************************************************)
(* Properties of resolve_state (under SpecResolve).                        *)
(***************************************************************************)

\* This step is a run of resolve_state.
ResolveStep == ~rres.resolved /\ rres'.resolved

Perms(q) == {r \in DistinctSeqs(Range(q), Len(q)) : Len(r) = Len(q)}

\* C5: the state that strategy 2 returns for an event with several
\* prev_events does not depend on the order of the prev_events: every
\* permutation of them resolves to the same state map.
C5_Determinism ==
    [][(ResolveStep /\ Len(rres'.prev) > 1 /\ ~rres'.remote)
          => \A q \in Perms(rres'.prev) :
                resolve_state(q, pdus, stateAt, rres'.libOk, rres'.reply,
                              rres'.state_vec) = rres'.result]_vars

\* C11: the remote fallback returns a state only when the create slot of
\* the snapshot it received holds the locally known create event; a snapshot
\* without create event or with another create event ends in an error.
C11_RemoteCreateCheck ==
    (rres.resolved /\ rres.remote /\ rres.reply.ok) =>
       LET creates == {e \in Range(rres.state_vec) : SlotOf(e) = "create"}
       IN  /\ rres.result.kind = "state"
                => (creates = {"C"} /\ rres.result.state["create"] = "C")
           /\ creates # {"C"} => rres.result.kind = "error"

\* The origin has answered with a snapshot that holds the create event of
\* another room and not the known one; resolve_state has returned the error.
C11_Witness ==
    /\ rres.resolved
    /\ rres.remote
    /\ rres.reply.ok
    /\ "D" \in Range(rres.state_vec)
    /\ "C" \notin Range(rres.state_vec)
    /\ rres.result = ResError("Incoming event refers to wrong create event.")

\* C14: for an event with one prev_event P whose state is cached,
\* resolve_state returns P's cached state with P's slot set to P when P is a
\* state event, and P's cached state as it is when P has no state key.
C14_SingleParent ==
    (rres.resolved /\ Len(rres.prev) = 1 /\ stateAt[rres.prev[1]].cached) =>
       LET p == rres.prev[1]
           cached == stateAt[p].state
       IN  rres.result =
              SomeState([k \in Slots |-> IF k = SlotOf(p) THEN p ELSE cached[k]])

\* The only parent is a membership event whose cached state holds the
\* earlier membership event in the same slot; the state returned holds the
\* parent there.
C14_Witness ==
    /\ rres.resolved
    /\ Len(rres.prev) = 1
    /\ LET p == rres.prev[1]
       IN  /\ stateAt[p].cached
           /\ SlotOf(p) = "member"
           /\ stateAt[p].state["member"] \notin {"-", p}
           /\ rres.result.kind = "state"
           /\ rres.result.state["member"] = p

\* Every parent of the run is stored and has its state cached.
ParentsCached(prev) ==
    \A i \in 1 .. Len(prev) : prev[i] \in pdus /\ stateAt[prev[i]].cached

\* state_res::resolve ran for the run and failed.
MergeFailed(r) == Len(r.prev) > 1 /\ ParentsCached(r.prev) /\ ~r.libOk

\* C24: the /state_ids request is sent exactly when the local strategies
\* gave no state (one parent without cached state, several parents with a
\* parent or its cached state missing, or a failed local resolution); a
\* state the local strategy produced is the result, and after a request the
\* result is what the reply gives.
C24_StrategyOrder ==
    [][ResolveStep =>
         LET r == rres'
             single == Len(r.prev) = 1
             noLocal == \/ single /\ ~stateAt[r.prev[1]].cached
                        \/ ~single /\ ~ParentsCached(r.prev)
                        \/ MergeFailed(r)
         IN  /\ r.remote <=> noLocal
             /\ ~r.remote => r.reply = NoReply
             /\ (~noLocal /\ ParentsCached(r.prev)) =>
                   r.result = SomeState(
                      IF single THEN Overlay(stateAt[r.prev[1]].state, r.prev[1])
                      ELSE state_res_resolve(ForkStates(r.prev, stateAt)))
             /\ noLocal => r.result = RemoteState(r.reply, r.state_vec)]_vars

\* A run whose local resolution failed took the state of the reply.
C24_Witness ==
    /\ rres.resolved /\ Len(rres.prev) > 1 /\ ~rres.libOk
    /\ rres.remote /\ rres.reply.ok /\ rres.result.kind = "state"

\* C25: when state_res::resolve fails, or the /state_ids request fails,
\* resolve_state returns an error, sends no request after the failure and
\* leaves the stored events' states as they were.
C25_FailureEndsResolution ==
    [][ResolveStep =>
         LET r == rres'
         IN  (MergeFailed(r) \/ (r.remote /\ ~r.reply.ok)) =>
                /\ r.result.kind = "error"
                /\ MergeFailed(r) => ~r.remote
                /\ stateAt' = stateAt]_vars

\* The list holds two events of one slot, or an event without state key.
Malformed(ids) ==
    \/ \E i \in 1 .. Len(ids) : SlotOf(ids[i]) = "none"
    \/ \E i, j \in 1 .. Len(ids) : i # j /\ SlotOf(ids[i]) = SlotOf(ids[j])

C35_ForkStatePerParent ==
    [][(ResolveStep /\ Len(rres'.prev) > 1 /\ ParentsCached(rres'.prev)) =>
          LET prev == rres'.prev
          IN  /\ fork_states_len(prev, stateAt) = Len(prev)
              /\ \A i \in 1 .. Len(prev) :
                    Overlay(stateAt[prev[i]].state, prev[i])
                       \in ForkStates(prev, stateAt)]_vars

\* C36: a state that resolve_state adopts from the remote fallback holds an
\* entry for every state event id the /state_ids reply lists; a reply of
\* which a listed event was not obtained is not adopted.
C36_SnapshotComplete ==
    [][ResolveStep =>
         LET r == rres'
             ids == r.reply.pdu_ids
         IN  (r.remote /\ r.result.kind = "state") =>
                /\ Range(r.state_vec) = Range(ids)
                /\ \A i \in 1 .. Len(ids) :
                      /\ SlotOf(ids[i]) # "none"
                      /\ r.result.state[SlotOf(ids[i])] = ids[i]]_vars

(***************************************************************************)
(* Properties of fetch_dependencies and authorize_pdu (under SpecAuth).    *)
(***************************************************************************)

\* C12: fetch_dependencies returns Ok whatever subset of the cited auth
\* events could be obtained, the empty one included.
C12_FetchNeverFails ==
    ares.stage \in {"fetched", "authorized"} => ares.fetch = OkUnit

\* fetch_dependencies has returned although an auth event the incoming event
\* cites could not be obtained.
C12_Witness ==
    /\ ares.stage = "fetched"
    /\ \E e \in Range(ares.pdu.auth_events) : e \notin known
    /\ ares.fetch.ok

\* The room's create event is found locally and is the one the event refers
\* to: by the room id, or as the only create event among the cited ones.
CreateFoundAndMatching(pdu, kn) ==
    /\ "C" \in kn
    /\ \/ pdu.id_as_room_id
       \/ {e \in Range(pdu.auth_events) : AuthKind(e) = "create"} = {"C"}

AuthorizeStep == ares.stage = "fetched" /\ ares'.stage = "authorized"

\* C27: authorize_pdu evaluates the state-independent rules first and the
\* state-dependent rules only when the first passed; it returns Ok exactly
\* when both pass and the error 'Auth check failed' otherwise; it leaves the
\* stored events as they are and the pipeline does not run it again for the
\* event.
C27_AuthOrder ==
    [][/\ AuthorizeStep =>
            LET r == ares'
                independent == check_state_independent_auth_rules(r.pdu,
                                   auth_events_by_event_id(r.pdu, known))
                dependent == check_state_dependent_auth_rules(r.pdu)
            IN  /\ Head(r.checks) = "independent"
                /\ "dependent" \in Range(r.checks) <=> independent
                /\ r.auth.ok <=> (independent /\ dependent)
                /\ ~r.auth.ok => r.auth = ErrOf("Auth check failed")
                /\ known' = known
       /\ ares.stage = "authorized" => ares'.stage = "none"]_vars

\* An event that fails the state-independent rules and would pass the
\* state-dependent ones has been rejected without evaluating the latter.
C27_Witness ==
    /\ ares.stage = "authorized"
    /\ ares.checks = << "independent" >>
    /\ ares.pdu.dependent_ok
    /\ ares.auth = ErrOf("Auth check failed")

\* C28: when authorize_pdu evaluates the state-dependent rules, the lookup
\* it gives them maps every (type, state_key) to the event that holds it in
\* the state resolved for the event.
C28_LookupIsResolvedState ==
    (ares.stage = "authorized" /\ "dependent" \in Range(ares.checks)) =>
       \A k \in AuthSlots : ares.lookup[k] = ares.state[k]

\* authorize_pdu is called in this step: it returns or it aborts.
AuthorizeCall ==
    ares.stage = "fetched" /\ ares'.stage \in {"authorized", "aborted"}

\* C38: every call of authorize_pdu returns Ok or the error 'Auth check
\* failed' and never aborts, whatever ids the event cites as auth events:
\* ids of stored events without state key, ids that are not stored, and two
\* ids of events of one slot.
C38_AuthorizeReturns ==
    [][AuthorizeCall =>
          /\ ares'.stage = "authorized"
          /\ ares'.auth \in {OkUnit, ErrOf("Auth check failed")}]_vars

(***************************************************************************)
(* Properties of the room mutex and of the state resolution mutex.         *)
(***************************************************************************)

\* The task is between taking the room's mutex and dropping its guard.
HoldsGuard(p) == adminPc[p] \in {"held", "append"}

\* C22: a task inside an append holds the mutex of the room it appends to,
\* no two tasks are inside an append to the same room at once, and a task
\* waiting for a room's mutex can take it whenever no task of that room holds
\* a guard, whatever is held for other rooms.
C22_AppendUnderRoomLock ==
    /\ \A p \in AdminTasks :
          adminPc[p] = "append" => roomid_mutex_state[RoomOf(p)] = p
    /\ \A p, q \in AdminTasks :
          (p # q /\ adminPc[p] = "append" /\ adminPc[q] = "append")
              => RoomOf(p) # RoomOf(q)
    /\ \A p \in AdminTasks :
          (/\ adminPc[p] = "lock"
           /\ \A q \in AdminTasks : RoomOf(q) = RoomOf(p) => ~HoldsGuard(q))
              => ENABLED Lock(p)

\* handler() is inside its append while make_user_admin() waits for the
\* admin room's mutex and create_admin_room() appends to its own room.
C22_Witness ==
    /\ adminPc["handler"] = "append"
    /\ adminPc["make_user_admin"] = "lock"
    /\ adminPc["create_admin_room"] = "append"
    /\ timelineLen["admin"] > 0

\* The task holds what stateres_mutex.lock() returned.
HoldsStateresLock(t) == resolverPc[t] \in {"locked", "resolve", "ok", "err"}

FindStep == ~ldapRes.called /\ ldapRes'.called

\* C40: find_ldap_user returns a user only when the search returned exactly
\* one entry and that entry has the localpart, displayname and email
\* attributes; a search that returns no entry or several returns the
\* not-found error; and a user is returned only for a user name that is the
\* uid of exactly one entry of the directory, which is the user returned.
C40_FindLdapUser ==
    [][FindStep =>
          LET r == ldapRes'
              named == {e \in ldapDir : e.uid = r.username}
          IN  /\ r.result.ok =>
                    /\ Cardinality(r.rs) = 1
                    /\ \A e \in r.rs :
                          e.uid # "-" /\ e.cn # "-" /\ e.mail # "-"
              /\ (r.conn = "ok" /\ Cardinality(r.rs) # 1) =>
                    r.result = ErrOf("User not found or multiple users found")
              /\ r.result.ok =>
                    /\ Cardinality(named) = 1
                    /\ r.result.user.localpart = r.username]_vars

====
